---------------------------- MODULE Spec2Model ----------------------------
(***************************************************************************)
(* A model of the mask editing engine of butterfly_annotator:              *)
(*   segmentation_app/ui/paint_widget.py   (PaintWidget)                   *)
(*   segmentation_app/ui/main_window.py    (SegmentationAnnotator)         *)
(*                                                                         *)
(* A mask is a record [w, h, px]: px maps the cell <<x, y>> (0-based, x    *)
(* the column and y the row, numpy's mask[y, x]) to its class id.          *)
(* NoneMask stands for Python's None.  Points are pairs <<x, y>>.          *)
(* zoom_factor is kept in tenths (10 is the factor 1.0).                   *)
(***************************************************************************)
EXTENDS Integers, Sequences, FiniteSets, TLC

(***************************************************************************)
(* Bounds of the model.                                                    *)
(***************************************************************************)
\* PaintWidget.max_history is 50 in the source (paint_widget.py:40); the
\* model runs the same code with a capacity small enough to be filled.
max_history == 2
\* max_fill_pixels is 100000 in the source (paint_widget.py:404); the model
\* runs the same loop with a cap that rasters of model size can exceed.
max_fill_pixels == 4

(***************************************************************************)
(* Small helpers.                                                          *)
(***************************************************************************)
Min(a, b) == IF a <= b THEN a ELSE b
Max(a, b) == IF a >= b THEN a ELSE b
Abs(a) == IF a >= 0 THEN a ELSE 0 - a

\* Python's int(a / b) for b > 0: the quotient truncated towards zero.
TruncDiv(a, b) == IF a >= 0 THEN a \div b ELSE 0 - ((0 - a) \div b)

Cells(w, h) == (0 .. (w - 1)) \X (0 .. (h - 1))

NoneMask == [w |-> 0, h |-> 0, px |-> <<>>]

\* np.zeros((height, width), dtype=np.uint8)
zeros(w, h) == [w |-> w, h |-> h, px |-> [c \in Cells(w, h) |-> 0]]

\* 0 <= x < mask.shape[1] and 0 <= y < mask.shape[0]
InBounds(m, x, y) == 0 <= x /\ x < m.w /\ 0 <= y /\ y < m.h

(***************************************************************************)
(* PaintWidget: undo history.                                              *)
(***************************************************************************)
\* save_mask_state without the size limit (a mutant).
save_mask_state_unbounded(history, m) ==
    IF m # NoneMask THEN Append(history, m) ELSE history

\* save_mask_state evicting the newest entry instead of the oldest (a mutant).
save_mask_state_evict_newest(history, m) ==
    IF m # NoneMask
    THEN IF Len(history) + 1 > max_history THEN history ELSE Append(history, m)
    ELSE history

\* save_mask_state: append a copy of the mask; over max_history, pop(0).
save_mask_state(history, m) ==
    IF m # NoneMask
    THEN LET h1 == Append(history, m)
         IN  IF Len(h1) > max_history THEN Tail(h1) ELSE h1
    ELSE history

\* undo popping the oldest entry, mask_history.pop(0) (a mutant).
undo_oldest(history, m) ==
    IF Len(history) > 0 /\ m # NoneMask
    THEN [mask |-> Head(history), history |-> Tail(history), ok |-> TRUE]
    ELSE [mask |-> m, history |-> history, ok |-> FALSE]

\* undo reporting success when there is nothing to restore (a mutant).
undo_empty_ok(history, m) ==
    IF Len(history) > 0 /\ m # NoneMask
    THEN [mask |-> history[Len(history)],
          history |-> SubSeq(history, 1, Len(history) - 1),
          ok |-> TRUE]
    ELSE [mask |-> m, history |-> history, ok |-> TRUE]

\* undo: the mask becomes mask_history.pop(); False when there is nothing
\* to restore.
undo(history, m) ==
    IF Len(history) > 0 /\ m # NoneMask
    THEN [mask |-> history[Len(history)],
          history |-> SubSeq(history, 1, Len(history) - 1),
          ok |-> TRUE]
    ELSE [mask |-> m, history |-> history, ok |-> FALSE]

can_undo(history) == Len(history) > 0

(***************************************************************************)
(* PaintWidget: zoom and coordinates.                                      *)
(***************************************************************************)
\* min_zoom = 0.1 and max_zoom = 10.0, in tenths.
min_zoom == 1
max_zoom == 100

\* set_zoom: max(min_zoom, min(max_zoom, zoom_factor))
set_zoom(z) == Max(min_zoom, Min(max_zoom, z))

\* screen_to_image_coords: QPoint(int(x / zoom), int(y / zoom))
screen_to_image_coords(p, zoom) ==
    IF zoom = 0 THEN p
    ELSE <<TruncDiv(p[1] * 10, zoom), TruncDiv(p[2] * 10, zoom)>>

(***************************************************************************)
(* PaintWidget: brush.                                                     *)
(***************************************************************************)
\* The cells the two loops of draw_on_mask assign: <<x + dx, y + dy>> for
\* dy and dx in range(-radius, radius + 1) with dx*dx + dy*dy <= radius*radius
\* that lie on the raster.  Every assignment stores the same value.
Painted(m, x, y, radius) ==
    { c \in DOMAIN m.px :
        \E dy \in (0 - radius) .. radius : \E dx \in (0 - radius) .. radius :
            /\ dx * dx + dy * dy <= radius * radius
            /\ c = <<x + dx, y + dy>>
            /\ InBounds(m, x + dx, y + dy) }

\* draw_on_mask painting the whole square of side 2*radius+1 (a mutant).
draw_on_mask_square(m, point, brush_size, eraser_mode, current_class) ==
    IF m = NoneMask THEN m
    ELSE LET r == brush_size \div 2
         IN  [m EXCEPT !.px = [c \in DOMAIN m.px |->
                 IF Abs(c[1] - point[1]) <= r /\ Abs(c[2] - point[2]) <= r
                 THEN (IF eraser_mode THEN 0 ELSE current_class)
                 ELSE m.px[c]]]

\* draw_on_mask: nothing without a mask; else the cells of the disc of
\* radius brush_size // 2 around the point take class 0 in eraser mode and
\* the current class otherwise.
draw_on_mask(m, point, brush_size, eraser_mode, current_class) ==
    IF m = NoneMask THEN m
    ELSE LET disc == Painted(m, point[1], point[2], brush_size \div 2)
         IN  [m EXCEPT !.px = [c \in DOMAIN m.px |->
                 IF c \in disc
                 THEN (IF eraser_mode THEN 0 ELSE current_class)
                 ELSE m.px[c]]]

\* draw_line computes int(start + (i / steps) * delta) in IEEE doubles.  The
\* result is the exact quotient (start * steps + i * delta) / steps truncated
\* towards zero, except where the rounding of i / steps makes the product
\* fall just short of an integer: for start and start + delta in -1 .. 23
\* these are the <<start, delta, steps, i>> below, where the double result
\* is one less than the exact one ((15 / 22) * 22 is 14.999999999999998).
DoubleShortfall ==
    { <<-1, 22, 22, 15>>, <<0, 22, 22, 15>>, <<1, 22, 22, 15>>,
      <<-1, 23, 23, 13>>, <<0, 23, 23, 13>> }

\* int(start + (i / steps) * delta)
Interpolate(start, delta, steps, i) ==
    IF <<start, delta, steps, i>> \in DoubleShortfall
    THEN TruncDiv(start * steps + i * delta, steps) - 1
    ELSE TruncDiv(start * steps + i * delta, steps)

\* The i-th interpolated point of draw_line.
LinePoint(start_point, end_point, steps, i) ==
    <<Interpolate(start_point[1], end_point[1] - start_point[1], steps, i),
      Interpolate(start_point[2], end_point[2] - start_point[2], steps, i)>>

\* draw_line: nothing for steps = 0 (it returns before its loop); else
\* draw_on_mask at the steps + 1 interpolated points, i = 0 .. steps.  Every
\* one of these calls writes the same value, so that the loop leaves that
\* value in the cells of all the discs and the other cells as they were.
draw_line(m, start_point, end_point, brush_size, eraser_mode, current_class) ==
    LET steps == Max(Abs(end_point[1] - start_point[1]),
                     Abs(end_point[2] - start_point[2]))
    IN  IF steps = 0 \/ m = NoneMask THEN m
        ELSE LET discs == UNION { Painted(m, LinePoint(start_point, end_point, steps, i)[1],
                                          LinePoint(start_point, end_point, steps, i)[2],
                                          brush_size \div 2) : i \in 0 .. steps }
             IN  [m EXCEPT !.px = [c \in DOMAIN m.px |->
                     IF c \in discs
                     THEN (IF eraser_mode THEN 0 ELSE current_class)
                     ELSE m.px[c]]]

(***************************************************************************)
(* PaintWidget: flood fill.                                                *)
(***************************************************************************)
\* RingOffsets[radius][k]: the offset <<int(radius*cos(a)), int(radius*sin(a))>>
\* for a = 15*(k-1) degrees, in IEEE double arithmetic, as flood_fill
\* computes it; tabulated for the radii rasters of model size can ask for
\* (max_search_radius = min(50, min(shape) // 10) <= 3 below 40 pixels).
RingOffsets ==
    <<
       << <<1, 0>>, <<0, 0>>, <<0, 0>>, <<0, 0>>, <<0, 0>>, <<0, 0>>, <<0, 1>>, <<0, 0>>, <<0, 0>>, <<0, 0>>, <<0, 0>>, <<0, 0>>, <<-1, 0>>, <<0, 0>>, <<0, 0>>, <<0, 0>>, <<0, 0>>, <<0, 0>>, <<0, -1>>, <<0, 0>>, <<0, 0>>, <<0, 0>>, <<0, 0>>, <<0, 0>> >>,
       << <<2, 0>>, <<1, 0>>, <<1, 0>>, <<1, 1>>, <<1, 1>>, <<0, 1>>, <<0, 2>>, <<0, 1>>, <<0, 1>>, <<-1, 1>>, <<-1, 0>>, <<-1, 0>>, <<-2, 0>>, <<-1, 0>>, <<-1, -1>>, <<-1, -1>>, <<-1, -1>>, <<0, -1>>, <<0, -2>>, <<0, -1>>, <<1, -1>>, <<1, -1>>, <<1, -1>>, <<1, 0>> >>,
       << <<3, 0>>, <<2, 0>>, <<2, 1>>, <<2, 2>>, <<1, 2>>, <<0, 2>>, <<0, 3>>, <<0, 2>>, <<-1, 2>>, <<-2, 2>>, <<-2, 1>>, <<-2, 0>>, <<-3, 0>>, <<-2, 0>>, <<-2, -1>>, <<-2, -2>>, <<-1, -2>>, <<0, -2>>, <<0, -3>>, <<0, -2>>, <<1, -2>>, <<2, -2>>, <<2, -1>>, <<2, 0>> >>
    >>

\* The descending-angle variant of the same-class search: each ring is
\* walked from 345 degrees down to 0 (a mutant).
RECURSIVE RingSearch_angle_descending(_, _, _, _, _, _)
RingSearch_angle_descending(m, x, y, radius, k, max_search_radius) ==
    IF radius > max_search_radius THEN [found |-> FALSE, x |-> x, y |-> y]
    ELSE IF k > 24
    THEN RingSearch_angle_descending(m, x, y, radius + 1, 1, max_search_radius)
    ELSE LET search_x == x + RingOffsets[radius][25 - k][1]
             search_y == y + RingOffsets[radius][25 - k][2]
         IN  IF InBounds(m, search_x, search_y) /\ m.px[<<search_x, search_y>>] = 0
             THEN [found |-> TRUE, x |-> search_x, y |-> search_y]
             ELSE RingSearch_angle_descending(m, x, y, radius, k + 1,
                                              max_search_radius)

\* The two loops of the same-class search: radius outermost, then the angle;
\* the first in-bounds background pixel ends both.
RECURSIVE RingSearch(_, _, _, _, _, _)
RingSearch(m, x, y, radius, k, max_search_radius) ==
    IF radius > max_search_radius THEN [found |-> FALSE, x |-> x, y |-> y]
    ELSE IF k > 24 THEN RingSearch(m, x, y, radius + 1, 1, max_search_radius)
    ELSE LET search_x == x + RingOffsets[radius][k][1]
             search_y == y + RingOffsets[radius][k][2]
         IN  IF InBounds(m, search_x, search_y) /\ m.px[<<search_x, search_y>>] = 0
             THEN [found |-> TRUE, x |-> search_x, y |-> search_y]
             ELSE RingSearch(m, x, y, radius, k + 1, max_search_radius)

\* The stack loop of flood_fill testing the cap one pixel late,
\* filled_pixels <= max_fill_pixels (a mutant).
RECURSIVE FillLoop_cap_late(_, _, _, _, _)
FillLoop_cap_late(m, stack, filled_pixels, original_value, fill_class) ==
    IF stack = <<>> \/ ~(filled_pixels <= max_fill_pixels)
    THEN [mask |-> m, filled |-> filled_pixels]
    ELSE LET c    == stack[Len(stack)]
             rest == SubSeq(stack, 1, Len(stack) - 1)
         IN  IF ~InBounds(m, c[1], c[2])
             THEN FillLoop_cap_late(m, rest, filled_pixels, original_value, fill_class)
             ELSE IF m.px[c] # original_value
             THEN FillLoop_cap_late(m, rest, filled_pixels, original_value, fill_class)
             ELSE FillLoop_cap_late([m EXCEPT !.px[c] = fill_class],
                           rest \o << <<c[1] + 1, c[2]>>, <<c[1] - 1, c[2]>>,
                                      <<c[1], c[2] + 1>>, <<c[1], c[2] - 1>> >>,
                           filled_pixels + 1, original_value, fill_class)

\* The stack loop of flood_fill pushing the four diagonal neighbours as
\* well, an 8-connected fill (a mutant).
RECURSIVE FillLoop_diagonal(_, _, _, _, _)
FillLoop_diagonal(m, stack, filled_pixels, original_value, fill_class) ==
    IF stack = <<>> \/ ~(filled_pixels < max_fill_pixels)
    THEN [mask |-> m, filled |-> filled_pixels]
    ELSE LET c    == stack[Len(stack)]
             rest == SubSeq(stack, 1, Len(stack) - 1)
         IN  IF ~InBounds(m, c[1], c[2])
             THEN FillLoop_diagonal(m, rest, filled_pixels, original_value, fill_class)
             ELSE IF m.px[c] # original_value
             THEN FillLoop_diagonal(m, rest, filled_pixels, original_value, fill_class)
             ELSE FillLoop_diagonal([m EXCEPT !.px[c] = fill_class],
                           rest \o << <<c[1] + 1, c[2]>>, <<c[1] - 1, c[2]>>,
                                      <<c[1], c[2] + 1>>, <<c[1], c[2] - 1>>,
                                      <<c[1] + 1, c[2] + 1>>, <<c[1] - 1, c[2] - 1>>,
                                      <<c[1] + 1, c[2] - 1>>, <<c[1] - 1, c[2] + 1>> >>,
                           filled_pixels + 1, original_value, fill_class)

\* The stack loop of flood_fill: pop the last entry, skip it when it is out
\* of bounds or does not hold original_value, else fill it and push its four
\* neighbours; stop on an empty stack or at max_fill_pixels.
RECURSIVE FillLoop(_, _, _, _, _)
FillLoop(m, stack, filled_pixels, original_value, fill_class) ==
    IF stack = <<>> \/ ~(filled_pixels < max_fill_pixels)
    THEN [mask |-> m, filled |-> filled_pixels]
    ELSE LET c    == stack[Len(stack)]
             rest == SubSeq(stack, 1, Len(stack) - 1)
         IN  IF ~InBounds(m, c[1], c[2])
             THEN FillLoop(m, rest, filled_pixels, original_value, fill_class)
             ELSE IF m.px[c] # original_value
             THEN FillLoop(m, rest, filled_pixels, original_value, fill_class)
             ELSE FillLoop([m EXCEPT !.px[c] = fill_class],
                           rest \o << <<c[1] + 1, c[2]>>, <<c[1] - 1, c[2]>>,
                                      <<c[1], c[2] + 1>>, <<c[1], c[2] - 1>> >>,
                           filled_pixels + 1, original_value, fill_class)

\* flood_fill that leaves the snapshot to its caller (a mutant).
flood_fill_no_snapshot(m, history, start_point, fill_class) ==
    IF m = NoneMask
    THEN [mask |-> m, history |-> history, ok |-> FALSE, filled |-> 0]
    ELSE IF ~InBounds(m, start_point[1], start_point[2])
    THEN [mask |-> m, history |-> history, ok |-> FALSE, filled |-> 0]
    ELSE LET original == m.px[start_point]
             search   == IF original = fill_class
                         THEN RingSearch(m, start_point[1], start_point[2], 1, 1,
                                         Min(50, Min(m.h, m.w) \div 10))
                         ELSE [found |-> TRUE, x |-> start_point[1],
                               y |-> start_point[2]]
         IN  IF ~search.found
             THEN [mask |-> m, history |-> history, ok |-> FALSE, filled |-> 0]
             ELSE LET r == FillLoop(m, << <<search.x, search.y>> >>, 0,
                                    IF original = fill_class THEN 0 ELSE original,
                                    fill_class)
                  IN  [mask |-> r.mask, history |-> history,
                       ok |-> r.filled > 0, filled |-> r.filled]

\* flood_fill taking its snapshot before it looks at the seed (a mutant).
flood_fill_snapshot_first(m, history, start_point, fill_class) ==
    IF m = NoneMask
    THEN [mask |-> m, history |-> history, ok |-> FALSE, filled |-> 0]
    ELSE LET h1 == save_mask_state(history, m)
         IN  IF ~InBounds(m, start_point[1], start_point[2])
             THEN [mask |-> m, history |-> h1, ok |-> FALSE, filled |-> 0]
             ELSE LET original == m.px[start_point]
                      search   == IF original = fill_class
                                  THEN RingSearch(m, start_point[1], start_point[2], 1, 1,
                                                  Min(50, Min(m.h, m.w) \div 10))
                                  ELSE [found |-> TRUE, x |-> start_point[1],
                                        y |-> start_point[2]]
                  IN  IF ~search.found
                      THEN [mask |-> m, history |-> h1, ok |-> FALSE, filled |-> 0]
                      ELSE LET r == FillLoop(m, << <<search.x, search.y>> >>, 0,
                                             IF original = fill_class THEN 0 ELSE original,
                                             fill_class)
                           IN  [mask |-> r.mask, history |-> h1,
                                ok |-> r.filled > 0, filled |-> r.filled]

\* flood_fill(start_point, fill_class): the new mask and history, the value
\* returned (ok) and the filled_pixels it counted.
flood_fill(m, history, start_point, fill_class) ==
    IF m = NoneMask
    THEN [mask |-> m, history |-> history, ok |-> FALSE, filled |-> 0]
    ELSE IF ~InBounds(m, start_point[1], start_point[2])
    THEN [mask |-> m, history |-> history, ok |-> FALSE, filled |-> 0]
    ELSE LET h1       == save_mask_state(history, m)
             original == m.px[start_point]
             search   == IF original = fill_class
                         THEN RingSearch(m, start_point[1], start_point[2], 1, 1,
                                         Min(50, Min(m.h, m.w) \div 10))
                         ELSE [found |-> TRUE, x |-> start_point[1],
                               y |-> start_point[2]]
         IN  IF ~search.found
             THEN [mask |-> m, history |-> h1, ok |-> FALSE, filled |-> 0]
             ELSE LET r == FillLoop(m, << <<search.x, search.y>> >>, 0,
                                    IF original = fill_class THEN 0 ELSE original,
                                    fill_class)
                  IN  [mask |-> r.mask, history |-> h1,
                       ok |-> r.filled > 0, filled |-> r.filled]

\* clear_mask: mask.fill(0)
clear_mask(m) ==
    IF m # NoneMask THEN [m EXCEPT !.px = [c \in DOMAIN m.px |-> 0]] ELSE m

(***************************************************************************)
(* State: the class palette and the session document.                      *)
(***************************************************************************)
VARIABLES
    class_colors,       \* PaintWidget.class_colors: class id -> <<r, g, b>>
    class_names,        \* class id -> name
    class_list,         \* the rows of the class list widget, in order
    mask_opacity,
    session_file,       \* the session document on disk, NoSession for none
    mask_visible        \* PaintWidget.mask_visible

(***************************************************************************)
(* SegmentationAnnotator: the mask codec on load.                          *)
(***************************************************************************)
Black   == <<0, 0, 0>>
Red     == <<255, 0, 0>>
Green   == <<0, 255, 0>>
Blue    == <<0, 0, 255>>
Yellow  == <<255, 255, 0>>
Magenta == <<255, 0, 255>>
Grey    == <<128, 128, 128>>

\* default_color_mapping of load_existing_mask
default_color_mapping ==
    (Red :> 1) @@ (Green :> 2) @@ (Blue :> 3) @@ (Yellow :> 4) @@ (Magenta :> 5)

\* The class a colour decodes to: color_to_class starts as {(0,0,0): 0} and
\* takes class_definitions[i][1] -> i for i >= 1 (a later entry replaces an
\* earlier one with the same colour), or the default mapping when there are
\* no class definitions; a colour that is no key leaves the pixel 0.
color_to_class(definitions, color) ==
    IF Len(definitions) > 0
    THEN LET hits == {i \in 2 .. Len(definitions) : definitions[i][2] = color}
         IN  IF hits # {}
             THEN (CHOOSE i \in hits : \A j \in hits : j <= i) - 1
             ELSE 0
    ELSE IF color \in DOMAIN default_color_mapping
         THEN default_color_mapping[color]
         ELSE 0

\* default_colors of save_mask
default_colors ==
    (1 :> Red) @@ (2 :> Green) @@ (3 :> Blue) @@ (4 :> Yellow) @@ (5 :> Magenta)

\* The colour save_mask writes for a class: class_color_mapping is
\* {0: (0,0,0)} plus class_definitions[i][1] for i >= 1, or the default
\* colours, and then, for the ids 6 .. class_list.count() that are keys of
\* PaintWidget.class_colors, the colour held there; save_rgb_mask leaves a
\* pixel of any other class (0, 0, 0).
class_color(definitions, class_id) ==
    IF class_id >= 6 /\ class_id <= Len(class_list) /\ class_id \in DOMAIN class_colors
    THEN class_colors[class_id]
    ELSE IF Len(definitions) > 0
    THEN IF class_id >= 1 /\ class_id <= Len(definitions) - 1
         THEN definitions[class_id + 1][2]
         ELSE Black
    ELSE IF class_id \in DOMAIN default_colors
         THEN default_colors[class_id]
         ELSE Black

\* DataManager.save_rgb_mask: the RGB image written for a mask.
save_rgb_mask(m, definitions) ==
    [mode |-> "RGB", w |-> m.w, h |-> m.h,
     px |-> [c \in DOMAIN m.px |-> class_color(definitions, m.px[c])]]

NoFile == [mode |-> "none", w |-> 0, h |-> 0, px |-> <<>>]

\* load_existing_mask: with an image path and a mask folder, a file at the
\* mask path that opens in mode RGB replaces the mask by its decoding; any
\* other file, or none, leaves the mask as it is.
load_existing_mask(m, path, folder, definitions, file) ==
    IF path = 0 \/ ~folder THEN m
    ELSE IF file.mode = "RGB"
    THEN [w |-> file.w, h |-> file.h,
          px |-> [c \in DOMAIN file.px |-> color_to_class(definitions, file.px[c])]]
    ELSE m

(***************************************************************************)
(* The environment: the image folder and the mask folder.                  *)
(***************************************************************************)
\* The files DataManager.get_image_list finds: two images that load and one
\* that PIL cannot open.
ImageFiles ==
    << [kind |-> "ok",  w |-> 2, h |-> 1],
       [kind |-> "ok",  w |-> 1, h |-> 1],
       [kind |-> "bad", w |-> 0, h |-> 0] >>

\* What may lie at the mask path of an image of size w x h: nothing, a mask
\* of the image's size with a red first pixel and an unknown colour in the
\* last, a file that is not RGB, or an RGB file of another size.
MaskFiles(w, h) ==
    { NoFile,
      [mode |-> "RGB", w |-> w, h |-> h,
       px |-> [c \in Cells(w, h) |->
                 IF c = <<0, 0>> THEN Red
                 ELSE IF c = <<w - 1, h - 1>> THEN Grey ELSE Black]],
      [mode |-> "L", w |-> w, h |-> h, px |-> [c \in Cells(w, h) |-> Black]],
      [mode |-> "RGB", w |-> 1, h |-> 1, px |-> [c \in Cells(1, 1) |-> Red]] }

\* Zoom factors the model lets the user reach (tenths).
ZoomLevels == {10, 12}

\* Pointer positions (widget coordinates) of move events; a drag may leave
\* the widget.
ScreenPoints == (-1 .. 1) \X {0}

\* Values the brush slider is moved to.
BrushSizes == {1}

(***************************************************************************)
(* State: the other fields of PaintWidget and SegmentationAnnotator.        *)
(***************************************************************************)
VARIABLES
    \* PaintWidget
    image,              \* "None" or "Ok" (a pixmap)
    mask,
    mask_history,
    drawing,
    last_point,
    brush_size,
    current_class,
    eraser_mode,
    zoom_factor,
    original_size,      \* <<w, h>> of the loaded image, <<0, 0>> for None
    \* SegmentationAnnotator
    image_list,         \* number of files listed (0: no folder loaded)
    current_image_index,
    current_image_path, \* 0 for None, else the 1-based place in ImageFiles
    mask_save_folder,   \* whether a mask folder is set
    mask_suffix_index,
    mask_modified,
    class_definitions,
    \* observers (not program state)
    pc,                 \* "ui", "loaded" right after a successful image load, or
                        \* the stage of a call under test
    ret,                \* what the last call under test returned
    stroke,             \* the brush stroke under observation
    history_image,      \* for each history entry, the image path it was taken under
    calls               \* the calls made to the history, in order

(***************************************************************************)
(* State: the tuples of variables and the initial state.                    *)
(***************************************************************************)
widget == <<image, mask, mask_history, drawing, last_point, brush_size,
            current_class, eraser_mode, zoom_factor, original_size>>
host == <<image_list, current_image_index, current_image_path,
          mask_save_folder, mask_suffix_index, mask_modified, class_definitions>>
host_but_modified == <<image_list, current_image_index, current_image_path,
                       mask_save_folder, mask_suffix_index, class_definitions>>
host_but_definitions == <<image_list, current_image_index, current_image_path,
                            mask_save_folder, mask_suffix_index, mask_modified>>
palette == <<class_colors, class_names, class_list, mask_opacity, session_file,
             mask_visible>>
observers == <<pc, ret, stroke, history_image, calls>>
vars == <<widget, host, palette, observers>>

NoStroke == [phase |-> "idle", mask0 |-> NoneMask, hist0 |-> <<>>, moves |-> 0,
             mask1 |-> NoneMask]
NoRet == [ok |-> FALSE, filled |-> 0]

\* PaintWidget.__init__ and SegmentationAnnotator.__init__ (no session file).
InitWidget ==
    /\ image = "None"
    /\ mask = NoneMask
    /\ mask_history = <<>>
    /\ drawing = FALSE
    /\ last_point = <<0, 0>>
    /\ brush_size = 10
    /\ current_class = 1
    /\ eraser_mode = FALSE
    /\ zoom_factor = 10
    /\ original_size = <<0, 0>>

InitHost ==
    /\ image_list = 0
    /\ current_image_index = 0
    /\ current_image_path = 0
    /\ mask_save_folder = FALSE
    /\ mask_suffix_index = 2
    /\ mask_modified = FALSE
    /\ class_definitions = <<>>

InitObservers ==
    /\ pc = "ui"
    /\ ret = NoRet
    /\ stroke = NoStroke
    /\ history_image = <<>>
    /\ calls = <<>>

\* DEFAULT_CLASS_COLORS of config.py.  The alpha of every class colour but
\* the background's is mask_opacity throughout (set_mask_opacity,
\* add_class_color and load_classes_from_definitions all write it), so that a
\* colour is kept as <<r, g, b>>.
DEFAULT_CLASS_COLORS == (0 :> Black) @@ default_colors

\* The name f"Class {i}" of a default or an added class.
ClassName(i) == <<"Class", i>>

NoSession == [exists |-> FALSE]

\* setup_default_classes, PaintWidget.__init__ (class_colors, mask_opacity,
\* mask_visible).
InitPalette ==
    /\ class_colors = DEFAULT_CLASS_COLORS
    /\ class_names = [i \in 1 .. 5 |-> ClassName(i)]
    /\ class_list = [i \in 1 .. 5 |-> ClassName(i)]
    /\ mask_opacity = 128
    /\ session_file = NoSession
    /\ mask_visible = TRUE

Init == InitWidget /\ InitHost /\ InitPalette /\ InitObservers

\* The tags of the history after save_mask_state under image path `path`.
TagPush(tags, m, path) ==
    IF m # NoneMask
    THEN LET t == Append(tags, path)
         IN  IF Len(t) > max_history THEN Tail(t) ELSE t
    ELSE tags

\* The widget's size on screen: original_size * zoom_factor, rounded.
WidgetSize == << (original_size[1] * zoom_factor + 5) \div 10,
                 (original_size[2] * zoom_factor + 5) \div 10 >>

\* Positions a press or a double click can have: inside the widget.
PressPoints == (0 .. (WidgetSize[1] - 1)) \X (0 .. (WidgetSize[2] - 1))

(***************************************************************************)
(* SegmentationAnnotator: loading, saving, leaving an image.               *)
(***************************************************************************)
\* mask_modified after save_mask: False once DataManager.save_rgb_mask has
\* succeeded; every early return and a failed save leave it as it was.
save_mask(modified, save_ok) ==
    IF current_image_path = 0 THEN modified
    ELSE IF ~mask_save_folder THEN modified
    ELSE IF mask = NoneMask THEN modified
    ELSE IF save_ok THEN FALSE
    ELSE modified

\* check_save_before_leave: with unsaved changes and a mask folder the user
\* answers Yes (save_mask, then leave), No (leave) or Cancel (stay).
check_save_before_leave(reply) ==
    IF mask_modified /\ mask_save_folder THEN reply \in {"Yes", "No"} ELSE TRUE

\* mask_modified after check_save_before_leave.
modified_after_check(reply, save_ok) ==
    IF mask_modified /\ mask_save_folder /\ reply = "Yes"
    THEN save_mask(mask_modified, save_ok)
    ELSE mask_modified

\* PaintWidget.load_image keeping the undo history of the image before (a
\* mutant).
load_image_keep_history(m, history, size, file) ==
    IF file.kind = "ok"
    THEN [ok |-> TRUE, image |-> "Ok", mask |-> zeros(file.w, file.h),
          history |-> history, original_size |-> <<file.w, file.h>>]
    ELSE [ok |-> FALSE, image |-> image, mask |-> m,
          history |-> history, original_size |-> size]

\* PaintWidget.load_image: a file PIL opens gives a pixmap, an all-zero mask
\* of its size and an empty history; one it cannot open changes nothing and
\* returns False.
load_image(m, history, size, file) ==
    IF file.kind = "ok"
    THEN [ok |-> TRUE, image |-> "Ok", mask |-> zeros(file.w, file.h),
          history |-> <<>>, original_size |-> <<file.w, file.h>>]
    ELSE [ok |-> FALSE, image |-> image, mask |-> m,
          history |-> history, original_size |-> size]

\* load_current_image at `index` (0-based) of a list of `listed` files,
\* mask_modified being `modified` when it is called: PaintWidget.load_image
\* and, when it succeeds, load_existing_mask, then mask_modified = False.
load_current_image(listed, index, modified, file) ==
    IF listed = 0 \/ index >= listed
    THEN /\ UNCHANGED <<image, mask, mask_history, original_size,
                        current_image_path, history_image>>
         /\ mask_modified' = modified
         /\ pc' = "ui"
    ELSE LET r == load_image(mask, mask_history, original_size, ImageFiles[index + 1])
         IN  IF r.ok
             THEN /\ image' = r.image
                  /\ mask' = load_existing_mask(r.mask, index + 1, mask_save_folder,
                                                class_definitions, file)
                  /\ mask_history' = r.history
                  /\ original_size' = r.original_size
                  /\ current_image_path' = index + 1
                  /\ mask_modified' = FALSE
                  /\ history_image' = SubSeq(history_image, 1, Len(r.history))
                  /\ pc' = "loaded"
             ELSE /\ UNCHANGED <<image, mask, mask_history, original_size,
                                 current_image_path, history_image>>
                  /\ mask_modified' = modified
                  /\ pc' = "ui"

\* The mask files that may lie at the mask path of the image at `index`;
\* without a mask folder no file is looked for.
FilesAt(index) ==
    IF mask_save_folder /\ index + 1 \in DOMAIN ImageFiles
    THEN MaskFiles(ImageFiles[index + 1].w, ImageFiles[index + 1].h)
    ELSE {NoFile}

\* Entries of the suffix combo box the user switches between.
SuffixChoices == {1, 2}

\* The answers to the prompt of check_save_before_leave, "None" when it
\* does not ask; and the outcomes of DataManager.save_rgb_mask when the
\* answer makes save_mask run.
Replies == IF mask_modified /\ mask_save_folder THEN {"Yes", "No", "Cancel"} ELSE {"None"}
SaveOutcomes(reply) == IF reply = "Yes" THEN BOOLEAN ELSE {FALSE}

\* A step of the application other than a successful image load: the
\* observers of the other specifications stay as they are.
Quiet == pc' = "ui" /\ UNCHANGED <<ret, stroke, calls>>

\* load_image_folder: the dialog returns a folder holding ImageFiles.
LoadImageFolder ==
    /\ \E file \in FilesAt(0) :
         /\ image_list' = Len(ImageFiles)
         /\ current_image_index' = 0
         /\ load_current_image(Len(ImageFiles), 0, mask_modified, file)
    /\ UNCHANGED <<drawing, last_point, brush_size, current_class, eraser_mode,
                   zoom_factor, mask_save_folder, mask_suffix_index,
                   class_definitions, palette>>
    /\ UNCHANGED <<ret, stroke, calls>>

\* previous_image
PreviousImage ==
    /\ image_list > 0 /\ current_image_index > 0
    /\ \E reply \in Replies : \E save_ok \in SaveOutcomes(reply) :
       \E file \in FilesAt(current_image_index - 1) :
         IF check_save_before_leave(reply)
         THEN /\ current_image_index' = current_image_index - 1
              /\ load_current_image(image_list, current_image_index - 1,
                                    modified_after_check(reply, save_ok), file)
         ELSE /\ UNCHANGED <<image, mask, mask_history, original_size,
                             current_image_index, current_image_path,
                             mask_modified, history_image>>
              /\ pc' = "ui"
    /\ UNCHANGED <<drawing, last_point, brush_size, current_class, eraser_mode,
                   zoom_factor, image_list, mask_save_folder, mask_suffix_index,
                   class_definitions, palette>>
    /\ UNCHANGED <<ret, stroke, calls>>

\* next_image
NextImage ==
    /\ image_list > 0 /\ current_image_index < image_list - 1
    /\ \E reply \in Replies : \E save_ok \in SaveOutcomes(reply) :
       \E file \in FilesAt(current_image_index + 1) :
         IF check_save_before_leave(reply)
         THEN /\ current_image_index' = current_image_index + 1
              /\ load_current_image(image_list, current_image_index + 1,
                                    modified_after_check(reply, save_ok), file)
         ELSE /\ UNCHANGED <<image, mask, mask_history, original_size,
                             current_image_index, current_image_path,
                             mask_modified, history_image>>
              /\ pc' = "ui"
    /\ UNCHANGED <<drawing, last_point, brush_size, current_class, eraser_mode,
                   zoom_factor, image_list, mask_save_folder, mask_suffix_index,
                   class_definitions, palette>>
    /\ UNCHANGED <<ret, stroke, calls>>

\* set_mask_folder: the dialog returns a folder.
SetMaskFolder ==
    /\ mask_save_folder' = TRUE
    /\ UNCHANGED <<widget, image_list, current_image_index, current_image_path,
                   mask_suffix_index, mask_modified, class_definitions,
                   history_image, palette>>
    /\ Quiet

\* on_mask_suffix_changed, run when the combo box takes another index: the
\* mask is cleared (PaintWidget.clear_mask) and the file under the new suffix
\* loaded over it.  A Yes to the prompt saves the mask under the new suffix
\* first, so that the file then loaded back is the one just written.
OnMaskSuffixChanged ==
    /\ \E index \in SuffixChoices \ {mask_suffix_index} :
       \E reply \in Replies : \E save_ok \in SaveOutcomes(reply) :
       \E file \in FilesAt(current_image_path - 1) :
         /\ mask_suffix_index' = index
         /\ IF current_image_path # 0 /\ mask_save_folder
               /\ (~mask_modified \/ check_save_before_leave(reply))
            THEN /\ mask' = load_existing_mask(
                                clear_mask(mask), current_image_path,
                                mask_save_folder, class_definitions,
                                IF mask_modified /\ reply = "Yes" /\ save_ok
                                   /\ mask # NoneMask
                                THEN save_rgb_mask(mask, class_definitions)
                                ELSE file)
                 /\ mask_modified' = FALSE
            ELSE UNCHANGED <<mask, mask_modified>>
    /\ UNCHANGED <<image, mask_history, drawing, last_point, brush_size,
                   current_class, eraser_mode, zoom_factor, original_size,
                   image_list, current_image_index, current_image_path,
                   mask_save_folder, class_definitions, history_image, palette>>
    /\ Quiet

\* save_mask (the Save Mask button or Ctrl+S)
SaveMask ==
    /\ \E save_ok \in BOOLEAN : mask_modified' = save_mask(mask_modified, save_ok)
    /\ UNCHANGED <<widget, image_list, current_image_index, current_image_path,
                   mask_save_folder, mask_suffix_index, class_definitions,
                   history_image, palette>>
    /\ Quiet

(***************************************************************************)
(* PaintWidget: pointer events.                                            *)
(***************************************************************************)
\* mousePressEvent (left button) at widget position p.
mousePressEvent(p) ==
    /\ image # "None"
    /\ mask_history' = save_mask_state(mask_history, mask)
    /\ drawing' = TRUE
    /\ last_point' = screen_to_image_coords(p, zoom_factor)
    /\ mask' = draw_on_mask(mask, screen_to_image_coords(p, zoom_factor),
                            brush_size, eraser_mode, current_class)
    /\ mask_modified' = IF mask # NoneMask THEN TRUE ELSE mask_modified
    /\ history_image' = TagPush(history_image, mask, current_image_path)
    /\ UNCHANGED <<image, brush_size, current_class, eraser_mode, zoom_factor,
                   original_size, host_but_modified, palette>>

\* mouseMoveEvent taking a snapshot at every move (a mutant).
mouseMoveEvent_snapshot(p) ==
    /\ drawing /\ image # "None"
    /\ mask_history' = save_mask_state(mask_history, mask)
    /\ mask' = draw_line(mask, last_point, screen_to_image_coords(p, zoom_factor),
                         brush_size, eraser_mode, current_class)
    /\ last_point' = screen_to_image_coords(p, zoom_factor)
    /\ mask_modified' = IF mask # NoneMask
                           /\ screen_to_image_coords(p, zoom_factor) # last_point
                        THEN TRUE ELSE mask_modified
    /\ history_image' = TagPush(history_image, mask, current_image_path)
    /\ UNCHANGED <<image, drawing, brush_size, current_class,
                   eraser_mode, zoom_factor, original_size, host_but_modified, palette>>

\* mouseMoveEvent at widget position p with the left button held.
mouseMoveEvent(p) ==
    /\ drawing /\ image # "None"
    /\ mask' = draw_line(mask, last_point, screen_to_image_coords(p, zoom_factor),
                         brush_size, eraser_mode, current_class)
    /\ last_point' = screen_to_image_coords(p, zoom_factor)
    /\ mask_modified' = IF mask # NoneMask
                           /\ screen_to_image_coords(p, zoom_factor) # last_point
                        THEN TRUE ELSE mask_modified
    /\ UNCHANGED <<image, mask_history, drawing, brush_size, current_class,
                   eraser_mode, zoom_factor, original_size, host_but_modified,
                   history_image, palette>>

\* mouseReleaseEvent (left button)
mouseReleaseEvent ==
    /\ drawing' = FALSE
    /\ UNCHANGED <<image, mask, mask_history, last_point, brush_size,
                   current_class, eraser_mode, zoom_factor, original_size,
                   host, history_image, palette>>

\* mouseDoubleClickEvent (left button) at widget position p.
mouseDoubleClickEvent(p) ==
    /\ image # "None" /\ ~eraser_mode
    /\ LET r == flood_fill(mask, mask_history,
                           screen_to_image_coords(p, zoom_factor), current_class)
       IN  /\ mask' = r.mask
           /\ mask_history' = r.history
           /\ mask_modified' = IF r.ok THEN TRUE ELSE mask_modified
           /\ history_image' =
                 IF InBounds(mask, screen_to_image_coords(p, zoom_factor)[1],
                             screen_to_image_coords(p, zoom_factor)[2])
                 THEN TagPush(history_image, mask, current_image_path)
                 ELSE history_image
    /\ UNCHANGED <<image, drawing, last_point, brush_size, current_class,
                   eraser_mode, zoom_factor, original_size, host_but_modified, palette>>

\* undo_last_action that does not signal the modification (a mutant).
undo_last_action_silent ==
    /\ LET r == undo(mask_history, mask)
       IN  /\ mask' = r.mask
           /\ mask_history' = r.history
           /\ history_image' = IF r.ok
                               THEN SubSeq(history_image, 1, Len(history_image) - 1)
                               ELSE history_image
    /\ UNCHANGED <<image, drawing, last_point, brush_size, current_class,
                   eraser_mode, zoom_factor, original_size, host, palette>>

\* undo_last_action (the Undo button or Ctrl+Z): PaintWidget.undo.
undo_last_action ==
    /\ LET r == undo(mask_history, mask)
       IN  /\ mask' = r.mask
           /\ mask_history' = r.history
           /\ mask_modified' = IF r.ok THEN TRUE ELSE mask_modified
           /\ history_image' = IF r.ok
                               THEN SubSeq(history_image, 1, Len(history_image) - 1)
                               ELSE history_image
    /\ UNCHANGED <<image, drawing, last_point, brush_size, current_class,
                   eraser_mode, zoom_factor, original_size, host_but_modified, palette>>

\* The left button goes down inside the widget, no button being held.
MousePressEvent ==
    /\ ~drawing
    /\ \E p \in PressPoints : mousePressEvent(p)
    /\ Quiet

\* The pointer moves with the left button held; it may leave the widget.
MouseMoveEvent ==
    /\ \E p \in ScreenPoints : mouseMoveEvent(p)
    /\ Quiet

\* The left button goes up.
MouseReleaseEvent ==
    /\ drawing
    /\ mouseReleaseEvent
    /\ Quiet

\* A double click inside the widget.
MouseDoubleClickEvent ==
    /\ ~drawing
    /\ \E p \in PressPoints : mouseDoubleClickEvent(p)
    /\ Quiet

UndoLastAction ==
    /\ undo_last_action
    /\ Quiet

(***************************************************************************)
(* SegmentationAnnotator: clear and the tool settings.                     *)
(***************************************************************************)
\* clear_mask, the Clear Mask button (enabled once an image has loaded),
\* answered Yes: save_mask_state, then PaintWidget.clear_mask.
ClearMask ==
    /\ current_image_path # 0
    /\ mask_history' = save_mask_state(mask_history, mask)
    /\ mask' = clear_mask(mask)
    /\ mask_modified' = IF mask # NoneMask THEN TRUE ELSE mask_modified
    /\ history_image' = TagPush(history_image, mask, current_image_path)
    /\ UNCHANGED <<image, drawing, last_point, brush_size, current_class,
                   eraser_mode, zoom_factor, original_size, host_but_modified, palette>>
    /\ Quiet

\* update_brush_size (the brush slider)
UpdateBrushSize ==
    /\ \E value \in BrushSizes : brush_size' = value
    /\ UNCHANGED <<image, mask, mask_history, drawing, last_point, current_class,
                   eraser_mode, zoom_factor, original_size, host, history_image, palette>>
    /\ Quiet

\* toggle_eraser_mode
ToggleEraserMode ==
    /\ eraser_mode' = ~eraser_mode
    /\ UNCHANGED <<image, mask, mask_history, drawing, last_point, brush_size,
                   current_class, zoom_factor, original_size, host, history_image, palette>>
    /\ Quiet

\* Zoom allocating the mask anew for the size on screen (a mutant).
Zoom_new_mask ==
    /\ current_image_path # 0
    /\ \E z \in {set_zoom(zoom_factor + 2), set_zoom(zoom_factor - 2), set_zoom(10)} :
         /\ z \in ZoomLevels
         /\ zoom_factor' = z
    /\ mask' = clear_mask(mask)
    /\ UNCHANGED <<image, mask_history, drawing, last_point, brush_size,
                   current_class, eraser_mode, original_size, host, history_image, palette>>
    /\ Quiet

\* zoom_in, zoom_out and zoom_reset (enabled once an image has loaded), each
\* through PaintWidget.set_zoom.
Zoom ==
    /\ current_image_path # 0
    /\ \E z \in {set_zoom(zoom_factor + 2), set_zoom(zoom_factor - 2), set_zoom(10)} :
         /\ z \in ZoomLevels
         /\ zoom_factor' = z
    /\ UNCHANGED <<image, mask, mask_history, drawing, last_point, brush_size,
                   current_class, eraser_mode, original_size, host, history_image, palette>>
    /\ Quiet

Next ==
    \/ LoadImageFolder
    \/ PreviousImage
    \/ NextImage
    \/ SetMaskFolder
    \/ OnMaskSuffixChanged
    \/ SaveMask
    \/ MousePressEvent
    \/ MouseMoveEvent
    \/ MouseReleaseEvent
    \/ MouseDoubleClickEvent
    \/ UndoLastAction
    \/ ClearMask
    \/ UpdateBrushSize
    \/ ToggleEraserMode
    \/ Zoom

Spec == Init /\ [][Next]_vars

(***************************************************************************)
(* Properties of the application (specification Spec).                     *)
(***************************************************************************)
\* The last entry of a non-empty sequence.
Last(seq) == seq[Len(seq)]

\* A history after exactly one more snapshot m: m on top of the entries of
\* h, of which only the newest max_history - 1 remain when h was full.
OnePush(h, m) ==
    LET keep == Min(Len(h), max_history - 1)
    IN  SubSeq(h, Len(h) - keep + 1, Len(h)) \o <<m>>

\* C1: every brush, flood-fill or clear mutation of the mask happens only
\* after a snapshot of the mask as it was at the start of the gesture has
\* been pushed: a press, a double click or a clear that changes the mask
\* leaves that mask on top of the history; a move changes the mask only
\* during a drag, which began with a press; so does the clearing of the
\* mask by a change of the mask suffix.
C1_SnapshotBeforeMutation ==
    [][ /\ (MousePressEvent \/ MouseDoubleClickEvent \/ ClearMask) /\ mask' # mask
           => can_undo(mask_history') /\ Last(mask_history') = mask
        /\ MouseMoveEvent /\ mask' # mask => drawing
        /\ OnMaskSuffixChanged /\ mask' = clear_mask(mask) /\ mask' # mask
           => can_undo(mask_history') /\ Last(mask_history') = mask ]_vars

\* C4: in every reachable state the undo history holds at most max_history
\* snapshots.
C4_HistoryBounded == Len(mask_history) <= max_history

\* A full history whose oldest entry has both cells of the first image
\* painted: no load installs such a mask, so the snapshots pushed before it
\* have been evicted.
C4_Witness ==
    /\ Len(mask_history) = max_history
    /\ mask_history[1] = [w |-> 2, h |-> 1, px |-> [c \in Cells(2, 1) |-> 1]]

\* C6: after every successful image load the undo history is empty and
\* can_undo is false, and every snapshot in the history was taken under the
\* image now loaded, so that no undo installs a mask that was snapshotted
\* while a different image was loaded.
C6_UndoDoesNotCrossImages ==
    /\ pc = "loaded" => mask_history = <<>> /\ ~can_undo(mask_history)
    /\ Len(history_image) = Len(mask_history)
    /\ \A i \in 1 .. Len(history_image) : history_image[i] = current_image_path

\* The second image has just been loaded in the middle of a drag (the
\* button went down on another image, where the press pushed a snapshot):
\* the history is empty.
C6_Witness ==
    /\ pc = "loaded"
    /\ current_image_path = 2
    /\ drawing
    /\ mask_history = <<>>

\* C13: in every reachable state with an image loaded, the mask has exactly
\* the image's width and height, also after a saved mask file has been
\* loaded, after a change of the mask suffix and after undo.
C13_MaskHasImageSize ==
    image # "None" => mask.w = original_size[1] /\ mask.h = original_size[2]

\* C16: a step that changes a pixel of the mask and is neither an image load
\* nor a reload of the mask under another suffix (so a brush paint, a flood
\* fill, a clear or an undo) leaves mask_modified true; and mask_modified
\* goes back from true to false only in an image load, in a reload of the
\* mask, or in a save_mask that writes the file (which needs an image, a
\* mask folder and a mask, and leaves the mask and the history alone).
C16_ModifiedFlag ==
    [][ /\ mask' # mask /\ pc' # "loaded" /\ mask_suffix_index' = mask_suffix_index
           => mask_modified'
        /\ mask_modified /\ ~mask_modified'
           => \/ pc' = "loaded"
              \/ /\ mask_suffix_index' # mask_suffix_index
                 /\ current_image_path # 0 /\ mask_save_folder
              \/ /\ current_image_path # 0 /\ mask_save_folder /\ mask # NoneMask
                 /\ mask' = mask /\ mask_history' = mask_history ]_vars

\* A gesture has changed the mask of an image that has a mask folder: the
\* mask differs from the snapshot taken when the gesture began, in a cell
\* that is painted now, and the flag is true.
C16_Witness ==
    /\ pc = "ui"
    /\ mask_save_folder
    /\ current_image_path # 0
    /\ can_undo(mask_history)
    /\ DOMAIN Last(mask_history).px = DOMAIN mask.px
    /\ \E c \in DOMAIN mask.px : mask.px[c] = 1 /\ Last(mask_history).px[c] = 0
    /\ mask_modified

(***************************************************************************)
(* Brush strokes (specification SpecStroke): an image is loaded, the mask  *)
(* and the history are any of the model's size, and the user presses,      *)
(* drags, releases and undoes.  `stroke` observes one stroke: the mask and *)
(* the history at the press, the moves counted (up to 2), the mask at the  *)
(* release.                                                                *)
(***************************************************************************)
\* The masks of a raster of w x h cells over the classes 0 .. top.
Masks(w, h, top) == { [w |-> w, h |-> h, px |-> f] : f \in [Cells(w, h) -> 0 .. top] }

\* The histories of at most max_history snapshots out of S.
Histories(S) == UNION { [1 .. n -> S] : n \in 0 .. max_history }

InitStroke ==
    /\ image = "Ok"
    /\ original_size = <<2, 1>>
    /\ mask \in Masks(2, 1, 1)
    /\ mask_history \in Histories(Masks(2, 1, 1))
    /\ drawing = FALSE
    /\ last_point = <<0, 0>>
    /\ brush_size \in BrushSizes \cup {10}
    /\ current_class = 1
    /\ eraser_mode \in BOOLEAN
    /\ zoom_factor = 10
    /\ image_list = Len(ImageFiles)
    /\ current_image_index = 0
    /\ current_image_path = 1
    /\ mask_save_folder = FALSE
    /\ mask_suffix_index = 2
    /\ mask_modified = FALSE
    /\ class_definitions = <<>>
    /\ InitPalette
    /\ pc = "stroke"
    /\ ret = NoRet
    /\ stroke = NoStroke
    /\ history_image = [i \in 1 .. Len(mask_history) |-> 1]
    /\ calls = <<>>

StrokePress ==
    /\ ~drawing
    /\ \E p \in PressPoints : mousePressEvent(p)
    /\ stroke' = [phase |-> "down", mask0 |-> mask, hist0 |-> mask_history,
                  moves |-> 0, mask1 |-> NoneMask]
    /\ UNCHANGED <<pc, ret, calls>>

StrokeMove ==
    /\ \E p \in ScreenPoints : mouseMoveEvent(p)
    /\ stroke' = IF stroke.phase = "down"
                 THEN [stroke EXCEPT !.moves = Min(stroke.moves + 1, 2)]
                 ELSE stroke
    /\ UNCHANGED <<pc, ret, calls>>

StrokeRelease ==
    /\ drawing
    /\ mouseReleaseEvent
    /\ stroke' = IF stroke.phase = "down"
                 THEN [stroke EXCEPT !.phase = "up", !.mask1 = mask]
                 ELSE NoStroke
    /\ UNCHANGED <<pc, ret, calls>>

\* An undo right after the release ends the observation of the stroke; any
\* other undo abandons it.
StrokeUndo ==
    /\ undo_last_action
    /\ stroke' = IF stroke.phase = "up"
                 THEN [stroke EXCEPT !.phase = "undone"]
                 ELSE NoStroke
    /\ UNCHANGED <<pc, ret, calls>>

NextStroke ==
    \/ StrokePress
    \/ StrokeMove
    \/ StrokeRelease
    \/ StrokeUndo

SpecStroke == InitStroke /\ [][NextStroke]_vars

\* C3: a complete brush stroke (press, any number of moves, release) adds
\* exactly one entry to the undo history, the mask as it was just before
\* the press, however many move events it contains; and a single undo after
\* the release restores the mask to that content and takes the entry off.
C3_StrokeSnapshottedOnce ==
    /\ stroke.phase \in {"down", "up"}
       => mask_history = OnePush(stroke.hist0, stroke.mask0)
    /\ stroke.phase = "undone"
       => /\ mask = stroke.mask0
          /\ mask_history \o <<stroke.mask0>> = OnePush(stroke.hist0, stroke.mask0)

\* A stroke of a press and two moves that changed the mask, begun on a full
\* history, released and undone.
C3_Witness ==
    /\ stroke.phase = "undone"
    /\ stroke.moves = 2
    /\ stroke.mask1 # stroke.mask0
    /\ Len(stroke.hist0) = max_history

(***************************************************************************)
(* The undo history on its own (specification SpecHistory): save_mask_state *)
(* and undo called in any order on any mask and any history of the model's *)
(* size, the live mask being edited in between.  `calls` observes a run of *)
(* snapshots followed by undos: the history the run began on, the masks    *)
(* pushed, in order, and the undos counted (up to 2).                      *)
(***************************************************************************)
\* The masks of the 2 x 1 raster with at most one cell painted.
HistoryMasks == { m \in Masks(2, 1, 1) : m.px[<<0, 0>>] + m.px[<<1, 0>>] <= 1 }

NewRun(history, pushed) == [start |-> history, pushed |-> pushed, undone |-> 0]

InitHistory ==
    /\ image = "Ok"
    /\ original_size = <<2, 1>>
    /\ mask \in HistoryMasks
    /\ mask_history \in Histories(HistoryMasks)
    /\ drawing = FALSE
    /\ last_point = <<0, 0>>
    /\ brush_size = 10
    /\ current_class = 1
    /\ eraser_mode = FALSE
    /\ zoom_factor = 10
    /\ image_list = Len(ImageFiles)
    /\ current_image_index = 0
    /\ current_image_path = 1
    /\ mask_save_folder = FALSE
    /\ mask_suffix_index = 2
    /\ mask_modified = FALSE
    /\ class_definitions = <<>>
    /\ InitPalette
    /\ pc = "history"
    /\ ret = NoRet
    /\ stroke = NoStroke
    /\ history_image = [i \in 1 .. Len(mask_history) |-> 1]
    /\ calls = NewRun(mask_history, <<>>)

\* save_mask_state().  A snapshot after an undo, or after max_history + 1
\* snapshots, begins a new run.
HistorySave ==
    /\ mask_history' = save_mask_state(mask_history, mask)
    /\ history_image' = TagPush(history_image, mask, current_image_path)
    /\ calls' = IF calls.undone > 0 \/ Len(calls.pushed) > max_history
                THEN NewRun(mask_history, <<mask>>)
                ELSE [calls EXCEPT !.pushed = Append(@, mask)]
    /\ UNCHANGED <<image, mask, drawing, last_point, brush_size, current_class,
                   eraser_mode, zoom_factor, original_size, host, pc, ret, stroke, palette>>

\* undo()
HistoryUndo ==
    /\ LET r == undo(mask_history, mask)
       IN  /\ mask' = r.mask
           /\ mask_history' = r.history
           /\ history_image' = SubSeq(history_image, 1, Len(r.history))
           /\ mask_modified' = IF r.ok THEN TRUE ELSE mask_modified
           /\ ret' = [ok |-> r.ok, filled |-> 0]
    /\ calls' = [calls EXCEPT !.undone = Min(@ + 1, 2)]
    /\ UNCHANGED <<image, drawing, last_point, brush_size, current_class,
                   eraser_mode, zoom_factor, original_size, host_but_modified,
                   pc, stroke, palette>>

\* Any edit of the live mask (brush, fill or clear) between two calls.  An
\* edit after an undo begins a new run.
HistoryEdit ==
    /\ \E m \in HistoryMasks \ {mask} : mask' = m
    /\ mask_modified' = TRUE
    /\ calls' = IF calls.undone > 0 THEN NewRun(mask_history, <<>>) ELSE calls
    /\ UNCHANGED <<image, mask_history, drawing, last_point, brush_size,
                   current_class, eraser_mode, zoom_factor, original_size,
                   host_but_modified, pc, ret, stroke, history_image, palette>>

NextHistory ==
    \/ HistorySave
    \/ HistoryUndo
    \/ HistoryEdit

SpecHistory == InitHistory /\ [][NextHistory]_vars

\* C2: save_mask_state followed by undo leaves the live mask equal, pixel
\* for pixel, to the mask at the time of the snapshot, on every history
\* (the live mask may have been edited in between).
C2_PushThenPop ==
    calls.undone = 1 /\ Len(calls.pushed) >= 1
    => /\ ret.ok
       /\ mask = Last(calls.pushed)
       /\ \A c \in Cells(2, 1) : mask.px[c] = Last(calls.pushed).px[c]

\* A snapshot taken on a full history that holds no copy of it, the mask
\* edited, and the undo: the mask is the snapshot again.
C2_Witness ==
    /\ calls.undone = 1
    /\ Len(calls.pushed) = 1
    /\ Len(calls.start) = max_history
    /\ \A i \in 1 .. Len(calls.start) : calls.start[i] # calls.pushed[1]
    /\ mask = calls.pushed[1]
    /\ mask_modified

\* C5: max_history + 1 snapshots pushed onto an empty history leave exactly
\* max_history entries, all but the earliest, in the order pushed; and undo
\* then pops the most recently pushed one.
C5_EvictionOrder ==
    calls.start = <<>> /\ Len(calls.pushed) = max_history + 1
    => /\ calls.undone = 0
          => /\ Len(mask_history) = max_history
             /\ \A i \in 1 .. max_history : mask_history[i] = calls.pushed[i + 1]
       /\ calls.undone = 1
          => /\ mask = calls.pushed[max_history + 1]
             /\ Len(mask_history) = max_history - 1
             /\ \A i \in 1 .. (max_history - 1) : mask_history[i] = calls.pushed[i + 1]

\* max_history + 1 different masks pushed onto an empty history, then one
\* undo.
C5_Witness ==
    /\ calls.start = <<>>
    /\ Len(calls.pushed) = max_history + 1
    /\ \A i, j \in 1 .. (max_history + 1) : i # j => calls.pushed[i] # calls.pushed[j]
    /\ calls.undone = 1

(***************************************************************************)
(* The brush on its own (specification SpecPaint): draw_on_mask and        *)
(* draw_line applied once to a mask of 3 x 3 cells, for every point on and *)
(* around the raster, every brush size up to 5, both modes and two         *)
(* classes.  `ret` keeps the mask before the call and the end of the line; *)
(* last_point is the point painted, or the start of the line.              *)
(***************************************************************************)
\* An empty mask, a mask of class 2, and one holding 0, 1 and 2.
PaintMasks ==
    { zeros(3, 3),
      [w |-> 3, h |-> 3, px |-> [c \in Cells(3, 3) |-> 2]],
      [w |-> 3, h |-> 3, px |-> [c \in Cells(3, 3) |-> (c[1] + c[2]) % 3]] }

PaintPoints == (-1 .. 3) \X (-1 .. 3)

\* Ends of the lines drawn, besides the start itself.
LineEnds == { <<0, 0>>, <<2, 1>>, <<1, 2>>, <<3, 3>>, <<-1, 2>> }

InitPaint ==
    /\ image = "Ok"
    /\ original_size = <<3, 3>>
    /\ mask \in PaintMasks
    /\ mask_history = <<>>
    /\ drawing = FALSE
    /\ last_point \in PaintPoints
    /\ brush_size \in 1 .. 5
    /\ current_class \in {1, 2}
    /\ eraser_mode \in BOOLEAN
    /\ zoom_factor = 10
    /\ image_list = Len(ImageFiles)
    /\ current_image_index = 0
    /\ current_image_path = 1
    /\ mask_save_folder = FALSE
    /\ mask_suffix_index = 2
    /\ mask_modified = FALSE
    /\ class_definitions = <<>>
    /\ InitPalette
    /\ pc = "input"
    /\ ret = [mask0 |-> mask, end |-> last_point]
    /\ stroke = NoStroke
    /\ history_image = <<>>
    /\ calls = <<>>

\* draw_on_mask(last_point)
PaintPoint ==
    /\ pc = "input"
    /\ mask' = draw_on_mask(mask, last_point, brush_size, eraser_mode, current_class)
    /\ mask_modified' = TRUE
    /\ pc' = "point"
    /\ UNCHANGED <<image, mask_history, drawing, last_point, brush_size,
                   current_class, eraser_mode, zoom_factor, original_size,
                   host_but_modified, ret, stroke, history_image, calls, palette>>

\* draw_line(last_point, end_point)
PaintLine ==
    /\ pc = "input"
    /\ \E end_point \in LineEnds \cup {last_point} :
         /\ mask' = draw_line(mask, last_point, end_point,
                              brush_size, eraser_mode, current_class)
         /\ mask_modified' = (end_point # last_point)
         /\ ret' = [ret EXCEPT !.end = end_point]
    /\ pc' = "line"
    /\ UNCHANGED <<image, mask_history, drawing, last_point, brush_size,
                   current_class, eraser_mode, zoom_factor, original_size,
                   host_but_modified, stroke, history_image, calls, palette>>

NextPaint ==
    \/ PaintPoint
    \/ PaintLine

SpecPaint == InitPaint /\ [][NextPaint]_vars

\* The class the brush writes.
Target == IF eraser_mode THEN 0 ELSE current_class

\* C8: painting the in-bounds point (x, y) with radius = brush_size // 2
\* sets to the target class exactly the cells (x+dx, y+dy) of the raster
\* with dx*dx + dy*dy <= radius*radius; every other cell keeps its value,
\* and the raster keeps its size (the part of the disc off the raster is
\* skipped).
C8_DiscPainted ==
    pc = "point" /\ InBounds(ret.mask0, last_point[1], last_point[2])
    => /\ mask.w = ret.mask0.w /\ mask.h = ret.mask0.h
       /\ DOMAIN mask.px = Cells(3, 3)
       /\ \A c \in Cells(3, 3) :
            mask.px[c] =
               IF (c[1] - last_point[1]) * (c[1] - last_point[1])
                  + (c[2] - last_point[2]) * (c[2] - last_point[2])
                  <= (brush_size \div 2) * (brush_size \div 2)
               THEN Target
               ELSE ret.mask0.px[c]

\* The corner <<0, 0>> of the empty mask painted with radius 2: part of the
\* disc lies off the raster, <<2, 0>> and <<1, 1>> are painted, and
\* <<2, 1>>, inside the square of side 5 but outside the disc, is not.
C8_Witness ==
    /\ pc = "point"
    /\ last_point = <<0, 0>>
    /\ brush_size = 5
    /\ ret.mask0 = zeros(3, 3)
    /\ Target = 1
    /\ mask.px[<<2, 0>>] = 1
    /\ mask.px[<<1, 1>>] = 1
    /\ mask.px[<<2, 1>>] = 0

\* C9: a zero-length line behaves as a point: draw_line(p, p) leaves the
\* mask as draw_on_mask(p) leaves it, for every point, brush size and mask.
C9_ZeroLengthLine ==
    pc = "line" /\ ret.end = last_point
    => mask = draw_on_mask(ret.mask0, last_point, brush_size, eraser_mode,
                           current_class)

(***************************************************************************)
(* Flood fill on its own (specification SpecFill): flood_fill called once  *)
(* on a mask of up to 9 cells, or on no mask,      with a history of any    *)
(* length up to max_history, for every seed on and around the raster and   *)
(* two fill classes.  last_point is the seed, current_class the fill       *)
(* class; `ret` keeps the mask, the history and the modified flag before   *)
(* the call, the value returned and the pixels counted.                    *)
(***************************************************************************)
\* A raster whose background cells touch only at their corners.
Checkerboard ==
    [w |-> 3, h |-> 3,
     px |-> [c \in Cells(3, 3) |-> IF (c[1] + c[2]) % 2 = 0 THEN 0 ELSE 2]]

\* A raster with two background regions of two cells each, (0,0)-(1,0) and
\* (2,1)-(2,2), that touch at one corner; the other cells hold class 2.
CornerRegions ==
    [w |-> 3, h |-> 3,
     px |-> [c \in Cells(3, 3) |->
               IF c \in {<<0, 0>>, <<1, 0>>, <<2, 1>>, <<2, 2>>} THEN 0 ELSE 2]]

\* A row of three cells of class 1 followed by one background cell.
ClassRow ==
    [w |-> 4, h |-> 1, px |-> [c \in Cells(4, 1) |-> IF c[1] < 3 THEN 1 ELSE 0]]

\* All-background rasters of five sizes, a raster cut in two by a column of
\* class 2, a raster of class 1, the three rasters above, and no mask.
FillMasks ==
    { zeros(1, 1), zeros(2, 1), zeros(2, 2), zeros(3, 2), zeros(3, 3),
      [w |-> 3, h |-> 3, px |-> [c \in Cells(3, 3) |-> IF c[1] = 1 THEN 2 ELSE 0]],
      [w |-> 2, h |-> 2, px |-> [c \in Cells(2, 2) |-> 1]],
      Checkerboard, CornerRegions, ClassRow,
      NoneMask }

FillSeeds == (-1 .. 3) \X (-1 .. 3)

InitFill ==
    /\ mask \in FillMasks
    /\ image = IF mask = NoneMask THEN "None" ELSE "Ok"
    /\ original_size = <<mask.w, mask.h>>
    /\ mask_history \in Histories({zeros(1, 1), zeros(2, 1)})
    /\ drawing = FALSE
    /\ last_point \in FillSeeds
    /\ brush_size = 10
    /\ current_class \in {1, 2}
    /\ eraser_mode = FALSE
    /\ zoom_factor = 10
    /\ image_list = Len(ImageFiles)
    /\ current_image_index = 0
    /\ current_image_path = 1
    /\ mask_save_folder = FALSE
    /\ mask_suffix_index = 2
    /\ mask_modified \in BOOLEAN
    /\ class_definitions = <<>>
    /\ InitPalette
    /\ pc = "input"
    /\ ret = [mask0 |-> mask, hist0 |-> mask_history, modified0 |-> mask_modified,
              ok |-> FALSE, filled |-> 0]
    /\ stroke = NoStroke
    /\ history_image = [i \in 1 .. Len(mask_history) |-> 1]
    /\ calls = <<>>

\* flood_fill(last_point, current_class)
FloodFill ==
    /\ pc = "input"
    /\ LET r == flood_fill(mask, mask_history, last_point, current_class)
       IN  /\ mask' = r.mask
           /\ mask_history' = r.history
           /\ mask_modified' = IF r.ok THEN TRUE ELSE mask_modified
           /\ ret' = [ret EXCEPT !.ok = r.ok, !.filled = r.filled]
           /\ history_image' = [i \in 1 .. Len(r.history) |-> 1]
    /\ pc' = "filled"
    /\ UNCHANGED <<image, drawing, last_point, brush_size, current_class,
                   eraser_mode, zoom_factor, original_size, host_but_modified,
                   stroke, calls, palette>>

NextFill ==
    \/ FloodFill

SpecFill == InitFill /\ [][NextFill]_vars

C10_BackgroundFilled ==
    /\ pc = "filled"
    /\ ret.mask0 # NoneMask
    /\ \A c \in DOMAIN ret.mask0.px : ret.mask0.px[c] = 0
    /\ InBounds(ret.mask0, last_point[1], last_point[2])
    /\ current_class # 0
    => /\ ret.ok
       /\ ret.filled = Min(ret.mask0.w * ret.mask0.h, max_fill_pixels)
       /\ DOMAIN mask.px = DOMAIN ret.mask0.px
       /\ Cardinality({c \in DOMAIN mask.px : mask.px[c] = current_class}) = ret.filled
       /\ \A c \in DOMAIN mask.px : mask.px[c] \in {0, current_class}
       /\ ret.mask0.w * ret.mask0.h <= max_fill_pixels
          => \A c \in DOMAIN mask.px : mask.px[c] = current_class

\* The background raster of 3 x 3 cells filled from its centre: the cap
\* stops the fill at max_fill_pixels cells, the seed among them.
C10_Witness ==
    /\ pc = "filled"
    /\ ret.mask0 = zeros(3, 3)
    /\ last_point = <<1, 1>>
    /\ ret.filled = max_fill_pixels
    /\ mask.px[<<1, 1>>] = current_class
    /\ \E c \in DOMAIN mask.px : mask.px[c] = 0

\* The 4-connected component of the cells S among the cells of m holding v.
RECURSIVE Component4(_, _, _)
Component4(m, S, v) ==
    LET N == S \cup { c \in DOMAIN m.px :
                        /\ m.px[c] = v
                        /\ \E d \in S : Abs(c[1] - d[1]) + Abs(c[2] - d[2]) = 1 }
    IN  IF N = S THEN S ELSE Component4(m, N, v)

\* C18: when the seed's value differs from the fill class and the region
\* is smaller than the cap, flood_fill succeeds and sets to the fill class
\* exactly the cells of the 4-connected component of the seed among the
\* cells holding the seed's original value; cells reachable only diagonally
\* and all other cells keep their values.
C18_FourConnectedFill ==
    /\ pc = "filled"
    /\ ret.mask0 # NoneMask
    /\ InBounds(ret.mask0, last_point[1], last_point[2])
    => LET original == ret.mask0.px[last_point]
           region   == Component4(ret.mask0, {last_point}, original)
       IN  /\ original # current_class
           /\ Cardinality(region) < max_fill_pixels
           => /\ ret.ok
              /\ ret.filled = Cardinality(region)
              /\ DOMAIN mask.px = DOMAIN ret.mask0.px
              /\ \A c \in DOMAIN mask.px :
                    mask.px[c] = IF c \in region THEN current_class
                                 ELSE ret.mask0.px[c]

\* A fill of a region of two cells that left alone a cell of the same value
\* touching the region at a corner only.
C18_Witness ==
    /\ pc = "filled"
    /\ ret.ok
    /\ ret.mask0 = CornerRegions
    /\ last_point = <<0, 0>>
    /\ ret.filled = 2
    /\ mask.px[<<0, 0>>] = current_class
    /\ mask.px[<<1, 0>>] = current_class
    /\ mask.px[<<2, 1>>] = 0
    /\ ret.mask0.px[<<2, 1>>] = ret.mask0.px[<<1, 0>>]

\* C19: flood_fill with a seed outside the raster is a no-op reported as
\* failure: it returns false and changes neither any mask cell nor the undo
\* history nor the mask_modified flag.
C19_OutOfBoundsSeed ==
    /\ pc = "filled"
    /\ ret.mask0 # NoneMask
    /\ ~InBounds(ret.mask0, last_point[1], last_point[2])
    => /\ ~ret.ok
       /\ ret.filled = 0
       /\ mask = ret.mask0
       /\ mask_history = ret.hist0
       /\ mask_modified = ret.modified0

\* A call on a raster of 3 x 3 cells with a seed one column to its right,
\* the history holding an entry and the mask unmodified before the call.
C19_Witness ==
    /\ pc = "filled"
    /\ ret.mask0 = Checkerboard
    /\ last_point = <<3, 1>>
    /\ Len(ret.hist0) = 1
    /\ ~ret.modified0
    /\ ~ret.ok
    /\ mask_history = ret.hist0

\* C20: flood fill seeded on a cell (x, y) already holding the fill class,
\* with a background cell at (x + 3, y), succeeds for any raster containing
\* both cells, and the filled region includes the 4-connected component of
\* that background cell.
C20_SameClassSeedFills ==
    /\ pc = "filled"
    /\ ret.mask0 # NoneMask
    /\ InBounds(ret.mask0, last_point[1], last_point[2])
    /\ InBounds(ret.mask0, last_point[1] + 3, last_point[2])
    => LET background == <<last_point[1] + 3, last_point[2]>>
       IN  /\ ret.mask0.px[last_point] = current_class
           /\ ret.mask0.px[background] = 0
           => /\ ret.ok
              /\ \A c \in Component4(ret.mask0, {background}, 0) :
                    mask.px[c] = current_class

\* C25: whenever flood_fill returns failure (no mask, seed out of bounds,
\* or same-class search exhausted), the undo history is exactly as before
\* the call.
C25_FailedFillKeepsHistory ==
    pc = "filled" /\ ~ret.ok => mask_history = ret.hist0

(***************************************************************************)
(* The class palette and the mask codec (specification SpecCodec): on the  *)
(* first image, with a mask folder set, the user selects classes, adds     *)
(* classes, changes class colours, loads class definitions and paints;     *)
(* then the mask is saved and the image loaded again, the file at its mask *)
(* path being the one just written.  `ret` keeps the file written and the  *)
(* mask it was written from.                                               *)
(***************************************************************************)
Cyan   == <<0, 255, 255>>
Orange == <<255, 128, 0>>

\* The lists feature_type() of a class file may return: entries
\* <<name, display colour>>, the first one the background; the second list
\* gives two classes the same colour.
DefinitionFiles ==
    { << <<"background", Black>>, <<"wing", Cyan>>, <<"body", Orange>> >>,
      << <<"background", Black>>, <<"wing", Cyan>>, <<"body", Cyan>> >> }

\* Colours picked in the QColorDialog of add_new_class / change_class_color.
AddedColors == {Cyan, Red}
ChangedColors == {Cyan, Orange}

\* The class list is not grown beyond MaxClasses rows.
MaxClasses == 6

\* Rows of the class list the user selects.
SelectRows == {0, 1, 5}

\* class_ids of update_current_class: the ids 1 .. len(class_definitions) - 1
\* that are keys of class_names, in increasing order; ClassIdAt(row) is
\* class_ids[row] (row is 0-based), and ClassIdCount is len(class_ids).
ClassIdCount ==
    Cardinality({i \in 1 .. (Len(class_definitions) - 1) : i \in DOMAIN class_names})

ClassIdAt(row) ==
    CHOOSE i \in 1 .. (Len(class_definitions) - 1) :
        /\ i \in DOMAIN class_names
        /\ Cardinality({j \in 1 .. (i - 1) : j \in DOMAIN class_names}) = row

\* update_current_class(row): the class the paint widget is set to.
update_current_class(row) ==
    IF Len(class_definitions) > 0
    THEN IF row >= 0 /\ row < ClassIdCount THEN ClassIdAt(row) ELSE current_class
    ELSE IF row >= 0 THEN row + 1 ELSE current_class

\* PaintWidget.add_class_color(class_id, color)
add_class_color(colors, class_id, color) ==
    [i \in DOMAIN colors \cup {class_id} |-> IF i = class_id THEN color ELSE colors[i]]

\* add_new_class, the colour dialog answered with `color`: refused when
\* class definitions are loaded; else the class count + 1 gets the colour,
\* a row and a name.
add_new_class(color) ==
    /\ Len(class_definitions) = 0
    /\ class_colors' = add_class_color(class_colors, Len(class_list) + 1, color)
    /\ class_list' = Append(class_list, ClassName(Len(class_list) + 1))
    /\ class_names' = [i \in DOMAIN class_names \cup {Len(class_list) + 1} |->
                         IF i = Len(class_list) + 1
                         THEN ClassName(i) ELSE class_names[i]]

\* change_class_color with the row of `class_id` selected, the colour dialog
\* answered with `color`.
change_class_color(class_id, color) ==
    /\ Len(class_list) > 0
    /\ Len(class_definitions) > 0 => class_id - 1 < ClassIdCount
    /\ class_colors' = add_class_color(class_colors, class_id, color)

\* load_classes_from_definitions(definitions)
load_classes_from_definitions(definitions) ==
    /\ class_definitions' = definitions
    /\ class_names' = [i \in 1 .. (Len(definitions) - 1) |-> definitions[i + 1][1]]
    /\ class_list' = [i \in 1 .. (Len(definitions) - 1) |-> definitions[i + 1][1]]
    /\ class_colors' = [i \in 0 .. (Len(definitions) - 1) |->
                          IF i = 0 THEN Black ELSE definitions[i + 1][2]]
    /\ current_class' = IF Len(definitions) > 1 THEN 1 ELSE current_class


NoCodecRet == [file |-> NoFile, mask0 |-> NoneMask]

InitCodec ==
    /\ image = "Ok"
    /\ original_size = <<2, 1>>
    /\ mask = zeros(2, 1)
    /\ mask_history = <<>>
    /\ drawing = FALSE
    /\ last_point = <<0, 0>>
    /\ brush_size = 1
    /\ current_class = 1
    /\ eraser_mode = FALSE
    /\ zoom_factor = 10
    /\ image_list = Len(ImageFiles)
    /\ current_image_index = 0
    /\ current_image_path = 1
    /\ mask_save_folder = TRUE
    /\ mask_suffix_index = 2
    /\ mask_modified = FALSE
    /\ class_definitions = <<>>
    /\ InitPalette
    /\ pc = "edit"
    /\ ret = NoCodecRet
    /\ stroke = NoStroke
    /\ history_image = <<>>
    /\ calls = <<>>

\* The user selects a row of the class list (update_current_class).
CodecSelect ==
    /\ pc = "edit"
    /\ \E row \in SelectRows :
         /\ row < Len(class_list)
         /\ current_class' = update_current_class(row)
    /\ UNCHANGED <<image, mask, mask_history, drawing, last_point, brush_size,
                   eraser_mode, zoom_factor, original_size, host, palette,
                   observers>>

\* add_new_class
CodecAddNewClass ==
    /\ pc = "edit"
    /\ Len(class_list) < MaxClasses
    /\ \E color \in AddedColors : add_new_class(color)
    /\ UNCHANGED <<widget, host, mask_opacity, session_file, mask_visible, observers>>

\* change_class_color, the row of the current class being selected
CodecChangeClassColor ==
    /\ pc = "edit"
    /\ \E color \in ChangedColors : change_class_color(current_class, color)
    /\ UNCHANGED <<widget, host, class_names, class_list, mask_opacity,
                   session_file, mask_visible, observers>>

\* load_class_definitions (once), the file giving one of DefinitionFiles
CodecLoadClasses ==
    /\ pc = "edit"
    /\ Len(class_definitions) = 0
    /\ \E definitions \in DefinitionFiles : load_classes_from_definitions(definitions)
    /\ UNCHANGED <<image, mask, mask_history, drawing, last_point, brush_size,
                   eraser_mode, zoom_factor, original_size, host_but_definitions,
                   mask_opacity, session_file, mask_visible, observers>>

\* A click of the brush (size 1) on a cell: draw_on_mask.
CodecPaint ==
    /\ pc = "edit"
    /\ \E p \in Cells(2, 1) :
         mask' = draw_on_mask(mask, p, brush_size, eraser_mode, current_class)
    /\ mask_modified' = TRUE
    /\ UNCHANGED <<image, mask_history, drawing, last_point, brush_size,
                   current_class, eraser_mode, zoom_factor, original_size,
                   host_but_modified, palette, observers>>

\* save_mask: DataManager.save_rgb_mask writes the file at the mask path.
CodecSave ==
    /\ pc = "edit"
    /\ ret' = [file |-> save_rgb_mask(mask, class_definitions), mask0 |-> mask]
    /\ mask_modified' = save_mask(mask_modified, TRUE)
    /\ pc' = "saved"
    /\ UNCHANGED <<widget, host_but_modified, palette, stroke, history_image, calls>>

\* load_current_image on the same image, the saved file lying at its mask
\* path; it leaves pc = "loaded".
CodecLoad ==
    /\ pc = "saved"
    /\ load_current_image(image_list, current_image_index, mask_modified, ret.file)
    /\ UNCHANGED <<drawing, last_point, brush_size, current_class, eraser_mode,
                   zoom_factor, image_list, current_image_index, mask_save_folder,
                   mask_suffix_index, class_definitions, palette, ret, stroke, calls>>

NextCodec ==
    \/ CodecSelect
    \/ CodecAddNewClass
    \/ CodecChangeClassColor
    \/ CodecLoadClasses
    \/ CodecPaint
    \/ CodecSave
    \/ CodecLoad

SpecCodec == InitCodec /\ [][NextCodec]_vars


\* The palette: every class colour is unique.
PaletteUnique ==
    \A i, j \in DOMAIN class_colors : i # j => class_colors[i] # class_colors[j]

\* C11: saving a mask and loading the file back with the same palette gives
\* the mask that was saved, whenever the colours of the palette are unique
\* and every class id in the mask has an entry in the palette, classes added
\* with add_new_class included.
C11_RoundTrip ==
    /\ pc = "loaded"
    /\ PaletteUnique
    /\ \A c \in DOMAIN ret.mask0.px : ret.mask0.px[c] \in DOMAIN class_colors
    => mask = ret.mask0

\* C12: save_mask writes every pixel of a class of the palette in the colour
\* the palette holds for it at the time of the call, and the load that
\* follows maps a colour that the palette holds for one class only back to
\* that class.
C12_CurrentColours ==
    /\ pc \in {"saved", "loaded"}
       => \A c \in DOMAIN ret.mask0.px :
             ret.mask0.px[c] \in DOMAIN class_colors
             => ret.file.px[c] = class_colors[ret.mask0.px[c]]
    /\ pc = "loaded"
       => \A c \in DOMAIN ret.file.px : \A k \in DOMAIN class_colors :
             /\ ret.file.px[c] = class_colors[k]
             /\ \A j \in DOMAIN class_colors : j # k => class_colors[j] # class_colors[k]
             => mask.px[c] = k


\* C24: the palette being the classes of the class list with the colours
\* save_mask persists for them, loading a mask assigns every pixel whose
\* colour two or more classes share to the one that comes first in palette
\* order (first match wins), and a pixel whose colour no class has becomes
\* background 0.
C24_FirstMatchWins ==
    pc = "loaded"
    => \A c \in DOMAIN ret.file.px :
          LET matches == { i \in 1 .. Len(class_list) :
                             class_color(class_definitions, i) = ret.file.px[c] }
          IN  /\ Cardinality(matches) >= 2
                 => \E i \in matches : /\ \A j \in matches : i <= j
                                       /\ mask.px[c] = i
              /\ matches = {} => mask.px[c] = 0

(***************************************************************************)
(* The session document (specification SpecSession): the user changes the  *)
(* brush size, the opacity, the mask suffix and the palette, opens an      *)
(* image folder, saves the session and, after further changes, loads it.   *)
(* `ret` keeps the editing state as it was when the session was saved;     *)
(* `calls` is <<"load_session">> once the session has been loaded, which   *)
(* ends the run.                                                           *)
(***************************************************************************)
\* json.dump writes the int keys of a dict as strings, and load_session
\* reads them back with int(k).
Digits == <<"0", "1", "2", "3", "4", "5", "6", "7", "8", "9">>
JsonKey(i) == Digits[i + 1]
IntOfKey(s) == CHOOSE i \in 0 .. 9 : Digits[i + 1] = s

\* A dict with int keys as json.dump writes it, and as load_session reads it.
JsonDict(f) == [s \in {JsonKey(i) : i \in DOMAIN f} |-> f[IntOfKey(s)]]
IntDict(d) == [i \in {IntOfKey(s) : s \in DOMAIN d} |-> d[JsonKey(i)]]

\* Values the opacity slider is moved to.
Opacities == {128, 153}

\* session_data of save_session, as SessionManager.save_session writes it.
session_data ==
    [exists              |-> TRUE,
     image_folder        |-> image_list > 0,
     mask_save_folder    |-> mask_save_folder,
     mask_suffix_index   |-> mask_suffix_index,
     current_image_index |-> current_image_index,
     brush_size          |-> brush_size,
     transparency        |-> mask_opacity,
     class_names         |-> JsonDict(class_names),
     class_definitions   |-> class_definitions,
     class_colors        |-> JsonDict(class_colors)]

\* The editing state a session is to restore.
EditingState ==
    [brush_size |-> brush_size, mask_opacity |-> mask_opacity,
     mask_suffix_index |-> mask_suffix_index, class_names |-> class_names,
     class_colors |-> class_colors, class_list |-> class_list]


\* save_session: the document is written (the write succeeds).
save_session ==
    /\ session_file' = session_data
    /\ UNCHANGED <<widget, host, class_colors, class_names, class_list, mask_opacity, mask_visible>>

\* load_session: nothing without a document; else the suffix index (signals
\* blocked), the class definitions, the brush size and the opacity (through
\* their sliders) are set from it, class_names is replaced and the class
\* list cleared, the mask folder is set when the document has one, and the
\* image folder is listed again and the image at the saved index loaded,
\* `file` lying at its mask path.
load_session(file) ==
    IF ~session_file.exists
    THEN UNCHANGED <<widget, host, palette, history_image, pc>>
    ELSE /\ mask_suffix_index' = session_file.mask_suffix_index
         /\ class_definitions' = session_file.class_definitions
         /\ brush_size' = session_file.brush_size
         /\ mask_opacity' = session_file.transparency
         /\ class_names' = IntDict(session_file.class_names)
         /\ class_list' = <<>>
         /\ mask_save_folder' = (session_file.mask_save_folder \/ mask_save_folder)
         /\ UNCHANGED <<class_colors, session_file, mask_visible, drawing, last_point,
                        current_class, eraser_mode, zoom_factor>>
         /\ IF session_file.image_folder
            THEN /\ image_list' = Len(ImageFiles)
                 /\ current_image_index' =
                       Min(session_file.current_image_index, Len(ImageFiles) - 1)
                 /\ LET index == Min(session_file.current_image_index,
                                     Len(ImageFiles) - 1)
                        r == load_image(mask, mask_history, original_size,
                                        ImageFiles[index + 1])
                    IN  IF r.ok
                        THEN /\ image' = r.image
                             /\ mask' = load_existing_mask(
                                           r.mask, index + 1,
                                           session_file.mask_save_folder \/ mask_save_folder,
                                           session_file.class_definitions, file)
                             /\ mask_history' = r.history
                             /\ original_size' = r.original_size
                             /\ current_image_path' = index + 1
                             /\ mask_modified' = FALSE
                             /\ history_image' = <<>>
                             /\ pc' = "loaded"
                        ELSE /\ UNCHANGED <<image, mask, mask_history, original_size,
                                            current_image_path, mask_modified,
                                            history_image>>
                             /\ pc' = "ui"
            ELSE /\ UNCHANGED <<image, mask, mask_history, original_size,
                                image_list, current_image_index,
                                current_image_path, mask_modified, history_image>>
                 /\ pc' = "ui"

\* update_mask_opacity (the opacity slider): PaintWidget.set_mask_opacity
UpdateMaskOpacity ==
    /\ \E value \in Opacities : mask_opacity' = value
    /\ UNCHANGED <<widget, host, class_colors, class_names, class_list,
                   session_file, mask_visible, history_image>>
    /\ Quiet

SessionAddNewClass ==
    /\ calls = <<>>
    /\ Len(class_list) < MaxClasses
    /\ add_new_class(Cyan)
    /\ UNCHANGED <<widget, host, mask_opacity, session_file, mask_visible, history_image>>
    /\ Quiet

SessionChangeClassColor ==
    /\ calls = <<>>
    /\ change_class_color(current_class, Orange)
    /\ UNCHANGED <<widget, host, class_names, class_list, mask_opacity,
                   session_file, mask_visible, history_image>>
    /\ Quiet

\* save_session (Save Session in the menu); the editing state is noted.
SaveSession ==
    /\ calls = <<>>
    /\ save_session
    /\ ret' = EditingState
    /\ UNCHANGED <<pc, stroke, history_image, calls>>

\* The mask files that may lie at the mask path of the image load_session
\* loads, the mask folder being the one it has just set.
SessionFiles ==
    LET index == Min(session_file.current_image_index, Len(ImageFiles) - 1)
    IN  IF (session_file.mask_save_folder \/ mask_save_folder)
           /\ session_file.image_folder
        THEN MaskFiles(ImageFiles[index + 1].w, ImageFiles[index + 1].h)
        ELSE {NoFile}

\* load_session (Open Session in the menu) on the document saved.
LoadSession ==
    /\ calls = <<>>
    /\ session_file.exists
    /\ \E file \in SessionFiles : load_session(file)
    /\ calls' = <<"load_session">>
    /\ UNCHANGED <<ret, stroke>>

NextSession ==
    \/ calls = <<>> /\ UpdateBrushSize
    \/ calls = <<>> /\ UpdateMaskOpacity
    \/ calls = <<>> /\ OnMaskSuffixChanged
    \/ calls = <<>> /\ LoadImageFolder
    \/ calls = <<>> /\ NextImage
    \/ SessionAddNewClass
    \/ SessionChangeClassColor
    \/ SaveSession
    \/ LoadSession

SpecSession == Init /\ [][NextSession]_vars

\* C14: load_session of the document written by save_session restores the
\* brush size, the mask opacity, the mask-suffix index and the class palette
\* (names, colours and the rows of the class list) to the values they had
\* when the session was saved.
C14_SessionRestores ==
    calls = <<"load_session">>
    => /\ brush_size = ret.brush_size
       /\ mask_opacity = ret.mask_opacity
       /\ mask_suffix_index = ret.mask_suffix_index
       /\ class_names = ret.class_names
       /\ class_colors = ret.class_colors
       /\ class_list = ret.class_list


(***************************************************************************)
(* Coordinates (specification SpecCoords): screen_to_image_coords applied  *)
(* once to a pointer position on or off the widget, at a zoom factor       *)
(* between min_zoom and max_zoom.  `ret` keeps the pointer position;       *)
(* last_point takes the result.                                            *)
(***************************************************************************)
\* Zoom factors (tenths) from min_zoom to max_zoom.
ZoomFactors == {min_zoom, 5, 8, 10, 12, 25, max_zoom}

\* Pointer positions, some left of or above the widget.
PointerPositions == (-3 .. 3) \X (-3 .. 3)

InitCoords ==
    /\ image = "Ok"
    /\ original_size = <<2, 1>>
    /\ mask = zeros(2, 1)
    /\ mask_history = <<>>
    /\ drawing = FALSE
    /\ last_point = <<0, 0>>
    /\ brush_size = 10
    /\ current_class = 1
    /\ eraser_mode = FALSE
    /\ zoom_factor \in ZoomFactors
    /\ image_list = Len(ImageFiles)
    /\ current_image_index = 0
    /\ current_image_path = 1
    /\ mask_save_folder = FALSE
    /\ mask_suffix_index = 2
    /\ mask_modified = FALSE
    /\ class_definitions = <<>>
    /\ InitPalette
    /\ pc = "input"
    /\ ret \in [p : PointerPositions]
    /\ stroke = NoStroke
    /\ history_image = <<>>
    /\ calls = <<>>

\* screen_to_image_coords(ret.p)
ScreenToImageCoords ==
    /\ pc = "input"
    /\ last_point' = screen_to_image_coords(ret.p, zoom_factor)
    /\ pc' = "converted"
    /\ UNCHANGED <<image, mask, mask_history, drawing, brush_size, current_class,
                   eraser_mode, zoom_factor, original_size, host, palette,
                   ret, stroke, history_image, calls>>

NextCoords ==
    \/ ScreenToImageCoords

SpecCoords == InitCoords /\ [][NextCoords]_vars

\* C15: screen_to_image_coords maps every pointer position p to
\* floor(p / zoom) componentwise, for every zoom between min_zoom and
\* max_zoom and every p, negative coordinates included.
C15_FloorOfQuotient ==
    pc = "converted"
    => last_point = << (ret.p[1] * 10) \div zoom_factor,
                       (ret.p[2] * 10) \div zoom_factor >>


(***************************************************************************)
(* Long lines (specification SpecLine): draw_line applied once with a      *)
(* brush of size 1 to the empty mask of 24 x 1 cells, between any two      *)
(* points of its row, one step off the raster included.  last_point is the *)
(* start of the line; `ret` keeps the mask before the call and the end.    *)
(***************************************************************************)
LineRaster == zeros(24, 1)

LongLinePoints == (-1 .. 23) \X {0}

InitLine ==
    /\ image = "Ok"
    /\ original_size = <<24, 1>>
    /\ mask = LineRaster
    /\ mask_history = <<>>
    /\ drawing = TRUE
    /\ last_point \in LongLinePoints
    /\ brush_size = 1
    /\ current_class = 1
    /\ eraser_mode = FALSE
    /\ zoom_factor = 10
    /\ image_list = Len(ImageFiles)
    /\ current_image_index = 0
    /\ current_image_path = 1
    /\ mask_save_folder = FALSE
    /\ mask_suffix_index = 2
    /\ mask_modified = FALSE
    /\ class_definitions = <<>>
    /\ InitPalette
    /\ pc = "input"
    /\ ret = [mask0 |-> mask, end |-> last_point]
    /\ stroke = NoStroke
    /\ history_image = <<>>
    /\ calls = <<>>

\* draw_line(last_point, end_point)
DrawLongLine ==
    /\ pc = "input"
    /\ \E end_point \in LongLinePoints :
         /\ mask' = draw_line(mask, last_point, end_point,
                              brush_size, eraser_mode, current_class)
         /\ mask_modified' = (end_point # last_point)
         /\ ret' = [ret EXCEPT !.end = end_point]
    /\ pc' = "line"
    /\ UNCHANGED <<image, mask_history, drawing, last_point, brush_size,
                   current_class, eraser_mode, zoom_factor, original_size,
                   host_but_modified, palette, stroke, history_image, calls>>

NextLine ==
    \/ DrawLongLine

SpecLine == InitLine /\ [][NextLine]_vars

\* C17: for p0 # p1, draw_line paints at steps + 1 points, steps being
\* max(|dx|, |dy|), the first of which is p0 and the last p1; two consecutive
\* points differ by at most 1 in each coordinate; and the stroke has no gap:
\* with a brush of one cell, every cell of the row between p0 and p1 is
\* painted.
C17_LineHasNoGaps ==
    pc = "line" /\ ret.end # last_point
    => LET steps == Max(Abs(ret.end[1] - last_point[1]),
                        Abs(ret.end[2] - last_point[2]))
       IN  /\ LinePoint(last_point, ret.end, steps, 0) = last_point
           /\ LinePoint(last_point, ret.end, steps, steps) = ret.end
           /\ \A i \in 0 .. (steps - 1) :
                /\ Abs(LinePoint(last_point, ret.end, steps, i + 1)[1]
                       - LinePoint(last_point, ret.end, steps, i)[1]) <= 1
                /\ Abs(LinePoint(last_point, ret.end, steps, i + 1)[2]
                       - LinePoint(last_point, ret.end, steps, i)[2]) <= 1
           /\ \A c \in DOMAIN mask.px :
                /\ Min(last_point[1], ret.end[1]) <= c[1]
                /\ c[1] <= Max(last_point[1], ret.end[1])
                => mask.px[c] = current_class


(***************************************************************************)
(* Flood fill step by step (specification SpecLoop): one call of           *)
(* flood_fill taken apart into its entry (the tests, the snapshot and the  *)
(* same-class search), the iterations of its stack loop and its exit, on   *)
(* rasters large enough for the same-class search to have a radius of 1    *)
(* (10 x 10 cells) or 2 (20 x 20 cells) and on small ones, for fill        *)
(* classes 0, 1 and 2.  last_point is the seed, current_class the fill     *)
(* class; `ret` keeps the mask, the history and the modified flag before   *)
(* the call, the locals of the call (start, original_value, stack, filled) *)
(* and the value returned.  The loop runs to its end once entered, which   *)
(* the fairness condition of SpecLoop states.                              *)
(***************************************************************************)
\* The loop test of flood_fill with the cap tested one pixel late (a mutant).
fill_continues_cap_late(stack, filled_pixels) ==
    stack # <<>> /\ filled_pixels <= max_fill_pixels

\* while stack and filled_pixels < max_fill_pixels
fill_continues(stack, filled_pixels) ==
    stack # <<>> /\ filled_pixels < max_fill_pixels

\* The part of flood_fill between the snapshot and the loop: the value at
\* the seed and, when it is the fill class already, the search for a
\* background cell, which then is the cell to start from, 0 being the value
\* to replace.
fill_start(m, start_point, fill_class) ==
    LET original == m.px[start_point]
    IN  IF original = fill_class
        THEN LET s == RingSearch(m, start_point[1], start_point[2], 1, 1,
                                 Min(50, Min(m.h, m.w) \div 10))
             IN  [found |-> s.found, start |-> <<s.x, s.y>>, original_value |-> 0]
        ELSE [found |-> TRUE, start |-> start_point, original_value |-> original]

\* One iteration of the stack loop.
fill_iteration(m, stack, filled_pixels, original_value, fill_class) ==
    LET c    == stack[Len(stack)]
        rest == SubSeq(stack, 1, Len(stack) - 1)
    IN  IF ~InBounds(m, c[1], c[2])
        THEN [mask |-> m, stack |-> rest, filled |-> filled_pixels]
        ELSE IF m.px[c] # original_value
        THEN [mask |-> m, stack |-> rest, filled |-> filled_pixels]
        ELSE [mask   |-> [m EXCEPT !.px[c] = fill_class],
              stack  |-> rest \o << <<c[1] + 1, c[2]>>, <<c[1] - 1, c[2]>>,
                                    <<c[1], c[2] + 1>>, <<c[1], c[2] - 1>> >>,
              filled |-> filled_pixels + 1]

\* A raster of class 1 with two background cells, two columns apart.
RingRaster10 ==
    [w |-> 10, h |-> 10,
     px |-> [c \in Cells(10, 10) |->
               IF c \in {<<5, 5>>, <<3, 5>>} THEN 0 ELSE 1]]

\* A raster of class 1 with two background cells: seen from (10, 10), one
\* on the ring of radius 1 at 90 degrees, one on the ring of radius 2 at 0.
RingRaster20 ==
    [w |-> 20, h |-> 20,
     px |-> [c \in Cells(20, 20) |->
               IF c \in {<<12, 10>>, <<10, 11>>} THEN 0 ELSE 1]]

LoopMasks ==
    { zeros(2, 2), CornerRegions, ClassRow, zeros(10, 10), RingRaster10,
      RingRaster20, NoneMask }

\* The seeds tried on a raster: around the background cells of the large
\* ones (the right edge included), on and around the small ones.
LoopSeeds(m) ==
    IF m.w = 20 THEN (8 .. 13) \X (8 .. 13)
    ELSE IF m.w = 10 THEN (2 .. 10) \X (3 .. 7)
    ELSE (-1 .. 3) \X (-1 .. 1)

LoopClasses == {0, 1, 2}

NoLocals == [start |-> <<0, 0>>, original_value |-> 0, stack |-> <<>>]

InitLoop ==
    /\ mask \in LoopMasks
    /\ image = IF mask = NoneMask THEN "None" ELSE "Ok"
    /\ original_size = <<mask.w, mask.h>>
    /\ mask_history = <<>>
    /\ drawing = FALSE
    /\ last_point \in LoopSeeds(mask)
    /\ brush_size = 10
    /\ current_class \in LoopClasses
    /\ eraser_mode = FALSE
    /\ zoom_factor = 10
    /\ image_list = Len(ImageFiles)
    /\ current_image_index = 0
    /\ current_image_path = 1
    /\ mask_save_folder = FALSE
    /\ mask_suffix_index = 2
    /\ mask_modified = FALSE
    /\ class_definitions = <<>>
    /\ InitPalette
    /\ pc = "input"
    /\ ret = [mask0 |-> mask, hist0 |-> mask_history, modified0 |-> mask_modified,
              ok |-> FALSE, filled |-> 0, start |-> NoLocals.start,
              original_value |-> NoLocals.original_value,
              stack |-> NoLocals.stack]
    /\ stroke = NoStroke
    /\ history_image = <<>>
    /\ calls = <<>>

\* flood_fill up to its loop (paint_widget.py:351-403): the two early
\* returns, the snapshot, the same-class search and its early return.
FillEnter ==
    /\ pc = "input"
    /\ IF mask = NoneMask \/ ~InBounds(mask, last_point[1], last_point[2])
       THEN /\ pc' = "filled"
            /\ UNCHANGED <<mask_history, history_image, ret>>
       ELSE LET s == fill_start(mask, last_point, current_class)
            IN  /\ mask_history' = save_mask_state(mask_history, mask)
                /\ history_image' = [i \in 1 .. Len(mask_history') |-> 1]
                /\ IF s.found
                   THEN /\ pc' = "loop"
                        /\ ret' = [ret EXCEPT !.start = s.start,
                                              !.original_value = s.original_value,
                                              !.stack = <<s.start>>]
                   ELSE /\ pc' = "filled"
                        /\ UNCHANGED ret
    /\ UNCHANGED <<image, mask, drawing, last_point, brush_size, current_class,
                   eraser_mode, zoom_factor, original_size, host, palette,
                   stroke, calls>>

\* One pass through the body of the while loop (paint_widget.py:405-422).
FillIterate ==
    /\ pc = "loop"
    /\ fill_continues(ret.stack, ret.filled)
    /\ LET r == fill_iteration(mask, ret.stack, ret.filled, ret.original_value,
                               current_class)
       IN  /\ mask' = r.mask
           /\ ret' = [ret EXCEPT !.stack = r.stack, !.filled = r.filled]
    /\ UNCHANGED <<image, mask_history, drawing, last_point, brush_size,
                   current_class, eraser_mode, zoom_factor, original_size, pc,
                   host, palette, stroke, history_image, calls>>

\* The end of flood_fill (paint_widget.py:426-439): with pixels filled, the
\* host's mask_modified is set and True returned, else False.
FillExit ==
    /\ pc = "loop"
    /\ ~fill_continues(ret.stack, ret.filled)
    /\ ret' = [ret EXCEPT !.ok = (ret.filled > 0)]
    /\ mask_modified' = IF ret.filled > 0 THEN TRUE ELSE mask_modified
    /\ pc' = "filled"
    /\ UNCHANGED <<image, mask, mask_history, drawing, last_point, brush_size,
                   current_class, eraser_mode, zoom_factor, original_size,
                   host_but_modified, palette, stroke, history_image, calls>>

NextLoop ==
    \/ FillEnter
    \/ FillIterate
    \/ FillExit

SpecLoop == InitLoop /\ [][NextLoop]_vars /\ WF_vars(NextLoop)

\* The step-by-step call ends as flood_fill taken as one step does.
LoopAgreesWithFloodFill ==
    pc = "filled"
    => LET r == flood_fill(ret.mask0, ret.hist0, last_point, current_class)
       IN  /\ mask = r.mask
           /\ mask_history = r.history
           /\ ret.ok = r.ok
           /\ ret.filled = r.filled


\* The n-th point the same-class search samples around <<x, y>>, counting
\* ring after ring and, on a ring, angle after angle from 0 degrees up.
RingSample(x, y, n) ==
    <<x + RingOffsets[((n - 1) \div 24) + 1][((n - 1) % 24) + 1][1],
      y + RingOffsets[((n - 1) \div 24) + 1][((n - 1) % 24) + 1][2]>>

\* C21: when the seed already holds the fill class, the points sampled are
\* those of the rings of radius 1 .. min(50, min(width, height) \div 10), 24
\* to a ring, by increasing radius and then increasing angle.  When none of
\* them is a background cell of the raster, flood_fill returns failure and
\* no mask cell changes; when one is, the first in that order is the cell
\* the fill starts from.
C21_RingSearchOrder ==
    /\ pc # "input"
    /\ ret.mask0 # NoneMask
    /\ InBounds(ret.mask0, last_point[1], last_point[2])
    => LET rings == Min(50, Min(ret.mask0.w, ret.mask0.h) \div 10)
           hits  == { n \in 1 .. (24 * rings) :
                        LET p == RingSample(last_point[1], last_point[2], n)
                        IN  /\ InBounds(ret.mask0, p[1], p[2])
                            /\ ret.mask0.px[p] = 0 }
       IN  ret.mask0.px[last_point] = current_class
           => IF hits = {}
              THEN pc = "filled" /\ ~ret.ok /\ mask = ret.mask0
              ELSE /\ \E n \in hits :
                        /\ \A k \in hits : n <= k
                        /\ ret.start = RingSample(last_point[1], last_point[2], n)
                   /\ pc = "filled" => ret.ok /\ mask.px[ret.start] = current_class

\* A fill seeded on class 1 at (10, 9) of the raster of 20 x 20 cells: the
\* ring of radius 1 holds no background, the ring of radius 2 does, and the
\* fill has started from it.
C21_Witness ==
    /\ pc = "filled"
    /\ ret.mask0 = RingRaster20
    /\ last_point = <<10, 9>>
    /\ current_class = 1
    /\ ret.start = <<10, 11>>
    /\ ret.ok
    /\ mask.px[<<10, 11>>] = 1
    /\ mask.px[<<12, 10>>] = 0


\* C22: flood_fill terminates for every mask, seed and fill class, fill
\* class 0 included; its filled counter never exceeds the cap
\* max_fill_pixels; and a call that reaches the cap returns success with the
\* partial fill left in the mask: the host's mask_modified is set, every
\* cell that changed holds the fill class and, the fill class differing
\* from the value replaced, exactly max_fill_pixels cells changed.
C22_FillTerminates ==
    /\ [](ret.filled <= max_fill_pixels)
    /\ <>(pc = "filled")
    /\ [](pc = "filled" /\ ret.filled = max_fill_pixels
          => /\ ret.ok
             /\ mask_modified
             /\ \A c \in DOMAIN mask.px :
                  mask.px[c] # ret.mask0.px[c] => mask.px[c] = current_class
             /\ ret.original_value # current_class
                => Cardinality({c \in DOMAIN mask.px :
                                  mask.px[c] # ret.mask0.px[c]}) = max_fill_pixels)

\* A fill with class 0 of the background raster of 10 x 10 cells: it has
\* stopped at the cap with cells still on its stack and returned success.
C22_Witness ==
    /\ pc = "filled"
    /\ ret.mask0 = zeros(10, 10)
    /\ current_class = 0
    /\ ret.filled = max_fill_pixels
    /\ ret.stack # <<>>
    /\ ret.ok


NoLeave == [request |-> "none", tick |-> FALSE, asked |-> FALSE,
            reply |-> "None", save_ok |-> FALSE, closed |-> FALSE]

\* The record of a request answered with `reply`.
Request(name, reply, save_ok, closed) ==
    [request |-> name, tick |-> ~ret.tick, asked |-> reply # "None",
     reply |-> reply, save_ok |-> save_ok, closed |-> closed]

InitLeave ==
    /\ InitWidget
    /\ InitHost
    /\ InitPalette
    /\ pc = "ui"
    /\ ret = NoLeave
    /\ stroke = NoStroke
    /\ history_image = <<>>
    /\ calls = <<>>

\* The body of previous_image and next_image under their guard, `index`
\* being the index to go to.
switch_image(index, reply, save_ok, file) ==
    IF check_save_before_leave(reply)
    THEN /\ current_image_index' = index
         /\ load_current_image(image_list, index,
                               modified_after_check(reply, save_ok), file)
    ELSE /\ UNCHANGED <<image, mask, mask_history, original_size,
                        current_image_index, current_image_path,
                        mask_modified, history_image>>
         /\ pc' = "ui"

\* previous_image
LeavePrevious ==
    /\ ~ret.closed
    /\ image_list > 0 /\ current_image_index > 0
    /\ \E reply \in Replies : \E save_ok \in SaveOutcomes(reply) :
       \E file \in FilesAt(current_image_index - 1) :
         /\ switch_image(current_image_index - 1, reply, save_ok, file)
         /\ ret' = Request("previous", reply, save_ok, FALSE)
    /\ UNCHANGED <<drawing, last_point, brush_size, current_class, eraser_mode,
                   zoom_factor, image_list, mask_save_folder, mask_suffix_index,
                   class_definitions, palette, stroke, calls>>

\* next_image
LeaveNext ==
    /\ ~ret.closed
    /\ image_list > 0 /\ current_image_index < image_list - 1
    /\ \E reply \in Replies : \E save_ok \in SaveOutcomes(reply) :
       \E file \in FilesAt(current_image_index + 1) :
         /\ switch_image(current_image_index + 1, reply, save_ok, file)
         /\ ret' = Request("next", reply, save_ok, FALSE)
    /\ UNCHANGED <<drawing, last_point, brush_size, current_class, eraser_mode,
                   zoom_factor, image_list, mask_save_folder, mask_suffix_index,
                   class_definitions, palette, stroke, calls>>

\* closeEvent: when check_save_before_leave lets it, save_session and
\* event.accept(); else event.ignore().
CloseEvent ==
    /\ ~ret.closed
    /\ \E reply \in Replies : \E save_ok \in SaveOutcomes(reply) :
         IF check_save_before_leave(reply)
         THEN /\ mask_modified' = modified_after_check(reply, save_ok)
              /\ session_file' = session_data
              /\ ret' = Request("close", reply, save_ok, TRUE)
         ELSE /\ UNCHANGED <<mask_modified, session_file>>
              /\ ret' = Request("close", reply, save_ok, FALSE)
    /\ UNCHANGED <<widget, host_but_modified, class_colors, class_names,
                   class_list, mask_opacity, mask_visible, pc, stroke, history_image, calls>>

NextLeave ==
    \/ ~ret.closed /\ LoadImageFolder
    \/ ~ret.closed /\ SetMaskFolder
    \/ ~ret.closed /\ MousePressEvent
    \/ ~ret.closed /\ MouseReleaseEvent
    \/ LeavePrevious
    \/ LeaveNext
    \/ CloseEvent

SpecLeave == InitLeave /\ [][NextLeave]_vars

\* C26: unsaved edits are never dropped without asking.  Whenever
\* previous_image, next_image or the closing of the window is requested
\* while mask_modified is true, the user is prompted first, and when the
\* answer is Cancel the current image, the mask and the history stay as
\* they are and the window open.
C26_PromptBeforeLeaving ==
    [][ ret'.tick # ret.tick /\ mask_modified
        => /\ ret'.asked
           /\ ret'.reply = "Cancel"
              => /\ current_image_index' = current_image_index
                 /\ current_image_path' = current_image_path
                 /\ image' = image
                 /\ mask' = mask
                 /\ mask_history' = mask_history
                 /\ ~ret'.closed ]_vars

\* C27: when the user answers Yes to the prompt and saving the mask fails,
\* the image switch (or the close) does not go on: the current image and
\* its mask stay loaded, the window stays open and mask_modified stays
\* true.
C27_FailedSaveStays ==
    [][ ret'.tick # ret.tick /\ ret'.asked /\ ret'.reply = "Yes" /\ ~ret'.save_ok
        => /\ current_image_index' = current_image_index
           /\ current_image_path' = current_image_path
           /\ image' = image
           /\ mask' = mask
           /\ mask_modified'
           /\ ~ret'.closed ]_vars


(***************************************************************************)
(* Undo on its own (specification SpecUndo): undo_last_action called once  *)
(* on any mask of the model's size, or on no mask, with a history of any   *)
(* length from 0 to max_history and either value of mask_modified.  `ret`  *)
(* keeps the mask, the history and the flag before the call, what can_undo *)
(* said then, and the value PaintWidget.undo returned.                     *)
(***************************************************************************)
InitUndo ==
    /\ mask \in HistoryMasks \cup {NoneMask}
    /\ image = IF mask = NoneMask THEN "None" ELSE "Ok"
    /\ original_size = <<mask.w, mask.h>>
    /\ mask_history \in IF mask = NoneMask THEN {<<>>} ELSE Histories(HistoryMasks)
    /\ drawing = FALSE
    /\ last_point = <<0, 0>>
    /\ brush_size = 10
    /\ current_class = 1
    /\ eraser_mode = FALSE
    /\ zoom_factor = 10
    /\ image_list = IF mask = NoneMask THEN 0 ELSE Len(ImageFiles)
    /\ current_image_index = 0
    /\ current_image_path = IF mask = NoneMask THEN 0 ELSE 1
    /\ mask_save_folder = FALSE
    /\ mask_suffix_index = 2
    /\ mask_modified \in IF mask = NoneMask THEN {FALSE} ELSE BOOLEAN
    /\ class_definitions = <<>>
    /\ InitPalette
    /\ pc = "input"
    /\ ret = [mask0 |-> mask, hist0 |-> mask_history, modified0 |-> mask_modified,
              can_undo |-> can_undo(mask_history), ok |-> FALSE]
    /\ stroke = NoStroke
    /\ history_image = [i \in 1 .. Len(mask_history) |-> 1]
    /\ calls = <<>>

\* undo_last_action
UndoOnce ==
    /\ pc = "input"
    /\ undo_last_action
    /\ ret' = [ret EXCEPT !.ok = undo(mask_history, mask).ok]
    /\ pc' = "undone"
    /\ UNCHANGED <<stroke, calls>>

NextUndo ==
    \/ UndoOnce

SpecUndo == InitUndo /\ [][NextUndo]_vars

\* C28: can_undo is true exactly when the history is non-empty; and undo on
\* an empty history, or with no mask loaded, returns false and changes
\* nothing: the mask, the history and mask_modified keep their values.
C28_UndoOnEmptyHistory ==
    /\ ret.can_undo = (ret.hist0 # <<>>)
    /\ pc = "undone" /\ (ret.hist0 = <<>> \/ ret.mask0 = NoneMask)
       => /\ ~ret.ok
          /\ mask = ret.mask0
          /\ mask_history = ret.hist0
          /\ mask_modified = ret.modified0

\* An undo called on a painted, saved mask with an empty history.
C28_Witness ==
    /\ pc = "undone"
    /\ ret.hist0 = <<>>
    /\ ~ret.can_undo
    /\ ret.mask0 # NoneMask
    /\ \E c \in DOMAIN ret.mask0.px : ret.mask0.px[c] = 1
    /\ ~ret.modified0
    /\ ~ret.ok
    /\ ~mask_modified


(***************************************************************************)
(* Appending classes (specification SpecAppend): from the default setup    *)
(* the user appends classes, saves the session, opens it again and loads   *)
(* class definitions, in any order.                                        *)
(***************************************************************************)
\* load_session (Open Session in the menu) on the document saved.
AppendLoadSession ==
    /\ session_file.exists
    /\ \E file \in SessionFiles : load_session(file)
    /\ UNCHANGED <<ret, stroke, calls>>

\* load_class_definitions, the file giving one of DefinitionFiles
AppendLoadClasses ==
    /\ Len(class_definitions) = 0
    /\ \E definitions \in DefinitionFiles : load_classes_from_definitions(definitions)
    /\ UNCHANGED <<image, mask, mask_history, drawing, last_point, brush_size,
                   eraser_mode, zoom_factor, original_size, host_but_definitions,
                   mask_opacity, session_file, mask_visible, observers>>

NextAppend ==
    \/ SessionAddNewClass
    \/ SaveSession
    \/ AppendLoadSession
    \/ AppendLoadClasses

SpecAppend == Init /\ [][NextAppend]_vars

\* C29: class ids stay unique under appends.  In every state reached
\* through the default setup, a session load and earlier appends, a class
\* appended by add_new_class gets an id that is a key neither of class_names
\* nor of class_colors, so that no existing class is overwritten.
C29_AppendedIdIsNew ==
    [][ Len(class_list') = Len(class_list) + 1
        => /\ (Len(class_list) + 1) \notin DOMAIN class_names
           /\ (Len(class_list) + 1) \notin DOMAIN class_colors ]_vars


(***************************************************************************)
(* The settings (specification SpecConfig): on an image of one cell the    *)
(* user paints and, in between, moves the brush slider, selects a class,   *)
(* toggles the eraser, zooms, moves the opacity slider, adds a class and   *)
(* toggles the visibility of the mask.                                     *)
(***************************************************************************)
InitConfig ==
    /\ image = "Ok"
    /\ original_size = <<1, 1>>
    /\ mask = zeros(1, 1)
    /\ mask_history = <<>>
    /\ drawing = FALSE
    /\ last_point = <<0, 0>>
    /\ brush_size = 10
    /\ current_class = 1
    /\ eraser_mode = FALSE
    /\ zoom_factor = 10
    /\ image_list = Len(ImageFiles)
    /\ current_image_index = 1
    /\ current_image_path = 2
    /\ mask_save_folder = FALSE
    /\ mask_suffix_index = 2
    /\ mask_modified = FALSE
    /\ class_definitions = <<>>
    /\ InitPalette
    /\ InitObservers

\* The user selects a row of the class list: update_current_class, which
\* calls PaintWidget.set_current_class.
SelectClass ==
    /\ \E row \in SelectRows :
         /\ row < Len(class_list)
         /\ current_class' = update_current_class(row)
    /\ UNCHANGED <<image, mask, mask_history, drawing, last_point, brush_size,
                   eraser_mode, zoom_factor, original_size, host, palette,
                   history_image>>
    /\ Quiet

\* PaintWidget.toggle_mask_visibility
ToggleMaskVisibility ==
    /\ mask_visible' = ~mask_visible
    /\ UNCHANGED <<widget, host, class_colors, class_names, class_list,
                   mask_opacity, session_file, history_image>>
    /\ Quiet

NextConfig ==
    \/ MousePressEvent
    \/ MouseReleaseEvent
    \/ UpdateBrushSize
    \/ SelectClass
    \/ ToggleEraserMode
    \/ Zoom
    \/ UpdateMaskOpacity
    \/ SessionAddNewClass
    \/ ToggleMaskVisibility

SpecConfig == InitConfig /\ [][NextConfig]_vars

\* C30: configuration changes do not touch the annotation.  A step that
\* changes the brush size, the current class, the eraser mode, the zoom
\* factor, the mask opacity, a class colour or the visibility of the mask
\* (set_brush_size, set_current_class, set_eraser_mode, set_zoom,
\* set_mask_opacity, add_class_color, toggle_mask_visibility) leaves every
\* mask cell and the whole undo history as they were.
C30_SettingsKeepAnnotation ==
    [][ \/ brush_size' # brush_size
        \/ current_class' # current_class
        \/ eraser_mode' # eraser_mode
        \/ zoom_factor' # zoom_factor
        \/ mask_opacity' # mask_opacity
        \/ class_colors' # class_colors
        \/ mask_visible' # mask_visible
        => mask' = mask /\ mask_history' = mask_history ]_vars

\* A setting changed on a painted mask with a full history: the class of
\* the cell is not the current class any more, the mask is hidden, and the
\* zoom factor is not the initial one.
C30_Witness ==
    /\ mask # NoneMask
    /\ mask.px[<<0, 0>>] = 1
    /\ current_class = 6
    /\ Len(mask_history) = max_history
    /\ brush_size = 1
    /\ eraser_mode
    /\ zoom_factor = 12
    /\ mask_opacity # 128
    /\ 6 \in DOMAIN class_colors
    /\ ~mask_visible

=============================================================================
